---------------------------- MODULE Spec2Model ----------------------------
(***************************************************************************)
(* Model of the @comp/storage package: the pathname utilities (utils.ts),  *)
(* the Vercel Blob provider (blob-provider.ts), the bucket helpers         *)
(* (types.ts) and the process-wide storage handle (index.ts).              *)
(*                                                                         *)
(* Strings are sequences of atoms.  An atom denotes a fixed piece of text: *)
(* a single character ("x", ".", "/", "\\", ":", "-", NUL, "%"), a         *)
(* well-formed percent escape ("%2e", "%2f", "%5c", "%00") or a word       *)
(* ("https", "vercel-storage", "attachments", ...).  No word contains the  *)
(* text of another atom at a position where the code looks for it, so a    *)
(* substring test on the text is a sub-sequence test on the atoms.  The    *)
(* atom "%" is a percent sign that starts no well-formed escape: every     *)
(* atom that can follow it has a non-hexadecimal first or second           *)
(* character.                                                              *)
(***************************************************************************)
EXTENDS Integers, Sequences, FiniteSets, TLC

VARIABLES
    input,            \* the argument of the utility call: [kind, s]
    call,             \* which utility was applied to input ("none" before)
    result,           \* what the call returned or threw: [ok, err, val]
    blobs,            \* backend: pathname -> stored object, or Absent
    requests,         \* the requests the last provider call sent: [op, host, auth, keys]
    storageInstance,  \* index.ts: the cached provider ("null" before first use)
    constructed,      \* how many providers have been constructed
    lastOp,           \* the provider call that returned last
    bucketArg,        \* the bucket argument of buildPathname ("none" otherwise)
    lastVia,          \* how the last call was made: "handle", "provider", "none"
    pending,          \* the copy in progress: its position and locals
    now,              \* seconds elapsed
    issued,           \* the URL getUrl returned last, with the time and options
    parsedArgs,       \* new URL(p) for each argument the callers pass, computed once
    db,               \* the database rows the application actions read and write
    objects,          \* the pathnames the storage backend holds for the actions
    procs,            \* the action invocations in flight: position and locals
    kv                \* the key-value store of download tokens

vars == <<input, call, result, blobs, requests, storageInstance, constructed,
          lastOp, bucketArg, lastVia, pending, now, issued, parsedArgs,
          db, objects, procs, kv>>

pathVars == <<input, call, result, bucketArg, parsedArgs>>
handleVars == <<storageInstance, constructed, lastVia>>
copyVars == <<pending>>
urlVars == <<now, issued>>
storeVars == <<blobs, requests, storageInstance, constructed, lastOp, lastVia,
               pending, now, issued, parsedArgs>>
providerVars == <<blobs, requests, storageInstance, constructed, lastOp, lastVia,
                  pending, issued>>
appVars == <<db, objects, procs, kv>>

-----------------------------------------------------------------------------
(* Bounds *)

\* Longest free tail (in atoms) appended to a fixed prefix to form an input.
MaxBody == 3

-----------------------------------------------------------------------------
(* Atoms and their character classes *)

NUL == "NUL"

\* Words made of lowercase letters only.
LowerLetterWords ==
    {"x", "https", "com", "amazonaws", "blob", "attachments", "questionnaires"}

\* Words made of uppercase letters only.
UpperLetterWords == {"COM"}

\* Words of letters with hyphens inside (first and last character a letter).
LowerHyphenWords == {"vercel-storage", "knowledge-base", "org-assets", "fleet-agents"}
UpperHyphenWords == {"VERCEL-STORAGE"}

\* Words of letters and digits, at least one digit.
DigitWords == {"s3"}

LetterWords == LowerLetterWords \cup UpperLetterWords
HyphenWords == LowerHyphenWords \cup UpperHyphenWords
Words == LetterWords \cup HyphenWords \cup DigitWords

\* Well-formed percent escapes, and the characters they encode.
PctEscapes == {"%2e", "%2f", "%5c", "%00"}

Atoms == Words \cup PctEscapes \cup {".", "-", "/", "\\", ":", NUL, "%"}

PctDecodeAtom(a) ==
    CASE a = "%2e" -> "."
      [] a = "%2f" -> "/"
      [] a = "%5c" -> "\\"
      [] a = "%00" -> NUL
      [] OTHER -> a

\* String.prototype.toLowerCase on one atom.
ToLowerAtom(a) ==
    CASE a = "COM" -> "com"
      [] a = "VERCEL-STORAGE" -> "vercel-storage"
      [] a = "PDF" -> "pdf"
      [] OTHER -> a

ToLowerCase(s) == [i \in 1..Len(s) |-> ToLowerAtom(s[i])]

\* Number of letters an atom of LetterWords stands for, capped at 2.
LetterCount(a) == IF a = "x" THEN 1 ELSE 2

-----------------------------------------------------------------------------
(* String helpers (String.prototype.includes / startsWith / endsWith)      *)

Includes(s, pat) ==
    \E i \in 1..(Len(s) - Len(pat) + 1) : SubSeq(s, i, i + Len(pat) - 1) = pat

StartsWith(s, pat) ==
    Len(s) >= Len(pat) /\ SubSeq(s, 1, Len(pat)) = pat

EndsWith(s, pat) ==
    Len(s) >= Len(pat) /\ SubSeq(s, Len(s) - Len(pat) + 1, Len(s)) = pat

\* The index of the first atom of s from position i on that is in set D,
\* or Len(s) + 1 when there is none.
RECURSIVE FirstIn(_, _, _)
FirstIn(s, i, D) ==
    IF i > Len(s) THEN Len(s) + 1
    ELSE IF s[i] \in D THEN i
    ELSE FirstIn(s, i + 1, D)

\* String.prototype.split on any separator of D: the pieces between them.
RECURSIVE SplitOn(_, _)
SplitOn(s, D) ==
    LET k == FirstIn(s, 1, D)
    IN  IF k > Len(s) THEN <<s>>
        ELSE <<SubSeq(s, 1, k - 1)>> \o SplitOn(SubSeq(s, k + 1, Len(s)), D)

\* Array.prototype.join with "/".
RECURSIVE JoinSlash(_)
JoinSlash(segs) ==
    IF segs = <<>> THEN <<>>
    ELSE IF Len(segs) = 1 THEN segs[1]
    ELSE segs[1] \o <<"/">> \o JoinSlash(Tail(segs))

-----------------------------------------------------------------------------
(* Values and results *)

Str(s) == [kind |-> "str", s |-> s]
\* null / undefined, and a non-string truthy value such as 42 or {}.
NonStrings == {[kind |-> "null", s |-> <<>>], [kind |-> "object", s |-> <<>>]}

Ok(v) == [ok |-> TRUE, err |-> "none", val |-> v]
Err(e) == [ok |-> FALSE, err |-> e, val |-> <<>>]
NoResult == [ok |-> FALSE, err |-> "pending", val |-> <<>>]

\* The error classes of the specification, by the message the code throws:
\*   InvalidPathname   'Invalid pathname: must be a non-empty string' /
\*                     'Invalid pathname: path traversal detected' /
\*                     'Invalid pathname: null byte detected'
\*   InvalidInput      'Invalid input: URL must be a non-empty string'
\*   UntrustedHost     'Invalid URL: Not a valid storage endpoint'
\*   MalformedInput    'Invalid input: Malformed URL detected'
\*   SuspiciousPattern 'Invalid input: Domain-like pattern detected in pathname'
\*   EmptyPathname     'Invalid pathname: cannot be empty'
\*   URIError          thrown by decodeURIComponent on a malformed escape

-----------------------------------------------------------------------------
(* utils.ts: validatePathname *)

\* The bug "the backslash form of traversal is not checked".
ValidatePathnameNoBackslash(v) ==
    IF v.kind # "str" \/ v.s = <<>> THEN Err("InvalidPathname")
    ELSE IF Includes(v.s, <<".", ".", "/">>) THEN Err("InvalidPathname")
    ELSE IF Includes(v.s, <<NUL>>) THEN Err("InvalidPathname")
    ELSE Ok(v.s)

ValidatePathname(v) ==
    IF v.kind # "str" \/ v.s = <<>> THEN Err("InvalidPathname")
    ELSE IF Includes(v.s, <<".", ".", "/">>) \/ Includes(v.s, <<".", ".", "\\">>)
         THEN Err("InvalidPathname")
    ELSE IF Includes(v.s, <<NUL>>) THEN Err("InvalidPathname")
    ELSE Ok(v.s)

-----------------------------------------------------------------------------
(* new URL(url): the WHATWG URL parser, restricted to the atoms above and  *)
(* to parsing without a base URL.  Of the special schemes only https is in *)
(* the alphabet; every other scheme is non-special.                        *)

\* What the scheme state accepts after the first (alphabetic) character.
SchemeAtoms == Words \cup {".", "-"}
NonSchemeAtoms == Atoms \ SchemeAtoms

\* The boundaries of s with leading and trailing C0 controls removed.
RECURSIVE StripLeadingNul(_)
StripLeadingNul(s) ==
    IF s # <<>> /\ s[1] = NUL THEN StripLeadingNul(Tail(s)) ELSE s

RECURSIVE StripTrailingNul(_)
StripTrailingNul(s) ==
    IF s # <<>> /\ s[Len(s)] = NUL
    THEN StripTrailingNul(SubSeq(s, 1, Len(s) - 1))
    ELSE s

RECURSIVE StripLeadingSlashes(_)
StripLeadingSlashes(s) ==
    IF s # <<>> /\ s[1] \in {"/", "\\"} THEN StripLeadingSlashes(Tail(s)) ELSE s

IsSingleDot(seg) == seg \in {<<".">>, <<"%2e">>}
IsDoubleDot(seg) ==
    seg \in {<<".", ".">>, <<".", "%2e">>, <<"%2e", ".">>, <<"%2e", "%2e">>}

\* UTF-8 percent-encoding with the path percent-encode set: of the atoms only
\* the C0 control is in the set.
PathEncode(seg) == [i \in 1..Len(seg) |-> IF seg[i] = NUL THEN "%00" ELSE seg[i]]

\* The path state: the segments in order onto the path built so far.
RECURSIVE PathState(_, _)
PathState(segs, path) ==
    IF segs = <<>> THEN path
    ELSE
        LET seg == Head(segs)
            isLast == Len(segs) = 1
            shortened == IF path = <<>> THEN path ELSE SubSeq(path, 1, Len(path) - 1)
            next ==
                IF IsDoubleDot(seg)
                THEN IF isLast THEN Append(shortened, <<>>) ELSE shortened
                ELSE IF IsSingleDot(seg)
                THEN IF isLast THEN Append(path, <<>>) ELSE path
                ELSE Append(path, PathEncode(seg))
        IN  PathState(Tail(segs), next)

\* The serialized path of a URL whose remaining input, from the path start
\* state on, is rest; seps are the characters that separate segments.
UrlPathname(rest, seps, special) ==
    IF rest = <<>>
    THEN IF special THEN <<"/">> ELSE <<>>
    ELSE <<"/">> \o JoinSlash(PathState(SplitOn(Tail(rest), seps), <<>>))

\* The host parser on the authority's host part.  A special URL's host is
\* percent-decoded, checked against the forbidden domain code points and
\* lowercased; any other URL's host is opaque and kept as written.
HostAtomsSpecial == Words \cup {".", "-", "%2e"}
HostAtomsOpaque == Words \cup {".", "-", "%"} \cup PctEscapes

ParseHost(buf, special) ==
    IF special
    THEN IF buf = <<>> \/ \E i \in 1..Len(buf) : buf[i] \notin HostAtomsSpecial
         THEN [ok |-> FALSE, host |-> <<>>]
         ELSE [ok |-> TRUE,
               host |-> ToLowerCase([i \in 1..Len(buf) |-> PctDecodeAtom(buf[i])])]
    ELSE IF \E i \in 1..Len(buf) : buf[i] \notin HostAtomsOpaque
         THEN [ok |-> FALSE, host |-> <<>>]
         ELSE [ok |-> TRUE, host |-> buf]

UrlFailure == [ok |-> FALSE, special |-> FALSE, host |-> <<>>, pathname |-> <<>>]

\* The authority state, the host state and the port state, then the path.
\* No atom is a digit, so a port, when a ":" announces one, must be empty.
ParseAuthority(rest, special) ==
    LET seps == IF special THEN {"/", "\\"} ELSE {"/"}
        k == FirstIn(rest, 1, seps)
        authority == SubSeq(rest, 1, k - 1)
        after == SubSeq(rest, k, Len(rest))
        c == FirstIn(authority, 1, {":"})
        hostBuf == SubSeq(authority, 1, c - 1)
        portBuf == SubSeq(authority, c + 1, Len(authority))
        h == ParseHost(hostBuf, special)
    IN  IF c <= Len(authority) /\ (hostBuf = <<>> \/ portBuf # <<>>) THEN UrlFailure
        ELSE IF ~h.ok THEN UrlFailure
        ELSE [ok |-> TRUE, special |-> special, host |-> h.host,
              pathname |-> UrlPathname(after, seps, special)]

ParseURL(s) ==
    LET t == StripTrailingNul(StripLeadingNul(s))
        e == FirstIn(t, 1, NonSchemeAtoms)
        scheme == ToLowerCase(SubSeq(t, 1, e - 1))
        special == scheme = <<"https">>
        rest == SubSeq(t, e + 1, Len(t))
    IN  IF t = <<>> \/ t[1] \notin Words \/ e > Len(t) \/ t[e] # ":" THEN UrlFailure
        ELSE IF special THEN ParseAuthority(StripLeadingSlashes(rest), TRUE)
        ELSE IF StartsWith(rest, <<"/", "/">>)
             THEN ParseAuthority(SubSeq(rest, 3, Len(rest)), FALSE)
        ELSE IF StartsWith(rest, <<"/">>)
             THEN [ok |-> TRUE, special |-> FALSE, host |-> <<>>,
                   pathname |-> UrlPathname(rest, {"/"}, FALSE)]
        ELSE [ok |-> TRUE, special |-> FALSE, host |-> <<>>,
              pathname |-> PathEncode(rest)]

-----------------------------------------------------------------------------
(* utils.ts: isValidStorageHost *)

HostWordAtoms == Words \cup {"-"}

\* One alternative of (s3|s3-[\w-]+|s3-website[\w.-]+|s3-accesspoint|s3-control)
\* as a whole dot-free label.  The atoms spell none of "website",
\* "accesspoint" and "control", so the last three alternatives match only
\* through s3-[\w-]+ here.
IsS3Label(l) ==
    \/ l = <<"s3">>
    \/ /\ Len(l) >= 3
       /\ l[1] = "s3"
       /\ l[2] = "-"
       /\ \A i \in 3..Len(l) : l[i] \in HostWordAtoms

\* ^([\w.-]+\.)?(s3|...)(\.[\w-]+)?\.amazonaws\.com$ on a lowercased host
\* that ends with ".amazonaws.com".
S3HostPattern(h) ==
    LET pre == SubSeq(h, 1, Len(h) - 4)
        labels == SplitOn(pre, {"."})
        n == Len(labels)
    IN  /\ \A i \in 1..Len(pre) : pre[i] \in HostWordAtoms \cup {"."}
        /\ \E j \in 1..n :
            /\ IsS3Label(labels[j])
            /\ \/ j = n
               \/ j = n - 1 /\ labels[n] # <<>>
            /\ ~(j = 2 /\ labels[1] = <<>>)

\* The bug "any amazonaws.com host is a storage host".
IsValidStorageHostAnyAws(host) ==
    LET normalizedHost == ToLowerCase(host)
    IN  \/ EndsWith(normalizedHost, <<".", "blob", ".", "vercel-storage", ".", "com">>)
        \/ EndsWith(normalizedHost, <<".", "vercel-storage", ".", "com">>)
        \/ EndsWith(normalizedHost, <<".", "amazonaws", ".", "com">>)

IsValidStorageHost(host) ==
    LET normalizedHost == ToLowerCase(host)
    IN  IF \/ EndsWith(normalizedHost, <<".", "blob", ".", "vercel-storage", ".", "com">>)
           \/ EndsWith(normalizedHost, <<".", "vercel-storage", ".", "com">>)
        THEN TRUE
        ELSE IF EndsWith(normalizedHost, <<".", "amazonaws", ".", "com">>)
        THEN S3HostPattern(normalizedHost)
        ELSE FALSE

-----------------------------------------------------------------------------
(* utils.ts: extractPathnameFromUrl *)

\* decodeURIComponent: every escape is decoded; a "%" that starts no escape
\* throws URIError.
DecodeURIComponent(s) ==
    IF \E i \in 1..Len(s) : s[i] = "%" THEN Err("URIError")
    ELSE Ok([i \in 1..Len(s) |-> PctDecodeAtom(s[i])])

\* String.prototype.substring(1).  Where the code applies it the first
\* character, when there is one, is the atom "/".
Substring1(s) == IF s = <<>> THEN <<>> ELSE Tail(s)

\* [a-z0-9]([a-z0-9-]*[a-z0-9])?  (case-insensitive)
IsDomainLabel(l) ==
    /\ l # <<>>
    /\ \A i \in 1..Len(l) : l[i] \in HostWordAtoms
    /\ l[1] # "-"
    /\ l[Len(l)] # "-"

\* [a-z]{2,}  (case-insensitive)
IsTld(l) ==
    /\ l # <<>>
    /\ \A i \in 1..Len(l) : l[i] \in LetterWords
    /\ (Len(l) >= 2 \/ LetterCount(l[1]) >= 2)

\* /^[a-z0-9]([a-z0-9-]*[a-z0-9])?(\.[a-z0-9]([a-z0-9-]*[a-z0-9])?)*\.[a-z]{2,}(\/|$)/i
\* Neither a label nor the TLD holds a "/", so a match spans the text before
\* the first "/", or all of it.
DomainPattern(s) ==
    LET head == SubSeq(s, 1, FirstIn(s, 1, {"/"}) - 1)
        parts == SplitOn(head, {"."})
        n == Len(parts)
    IN  /\ n >= 2
        /\ \A i \in 1..(n - 1) : IsDomainLabel(parts[i])
        /\ IsTld(parts[n])

\* The bug "the path is validated while still percent-encoded".
ExtractFromParsedUrlValidateRaw(u) ==
    IF ~IsValidStorageHost(u.host) THEN Err("UntrustedHost")
    ELSE IF ~ValidatePathname(Str(Substring1(u.pathname))).ok THEN Err("InvalidPathname")
    ELSE DecodeURIComponent(Substring1(u.pathname))

\* Lines 38-51: the input parsed as a URL.
ExtractFromParsedUrl(u) ==
    IF ~IsValidStorageHost(u.host) THEN Err("UntrustedHost")
    ELSE
        LET d == DecodeURIComponent(Substring1(u.pathname))
        IN  IF ~d.ok THEN d
            ELSE IF ~ValidatePathname(Str(d.val)).ok THEN Err("InvalidPathname")
            ELSE Ok(d.val)

\* The bug "the scheme-separator check is missing".
ExtractFromBarePathNoSchemeCheck(url) ==
    IF DomainPattern(url) THEN Err("SuspiciousPattern")
    ELSE IF ~ValidatePathname(Str(url)).ok THEN Err("InvalidPathname")
    ELSE
        LET pathname == IF StartsWith(url, <<"/">>) THEN Substring1(url) ELSE url
        IN  IF pathname = <<>> THEN Err("EmptyPathname") ELSE Ok(pathname)

\* The bug "validatePathname runs before the domain-shape check".
ExtractFromBarePathValidateFirst(url) ==
    IF Includes(ToLowerCase(url), <<":", "/", "/">>) THEN Err("MalformedInput")
    ELSE IF ~ValidatePathname(Str(url)).ok THEN Err("InvalidPathname")
    ELSE IF DomainPattern(url) THEN Err("SuspiciousPattern")
    ELSE
        LET pathname == IF StartsWith(url, <<"/">>) THEN Substring1(url) ELSE url
        IN  IF pathname = <<>> THEN Err("EmptyPathname") ELSE Ok(pathname)

\* The bug "every leading slash is stripped" (url.replace(/^\/+/, '')).
ExtractFromBarePathStripAll(url) ==
    IF Includes(ToLowerCase(url), <<":", "/", "/">>) THEN Err("MalformedInput")
    ELSE IF DomainPattern(url) THEN Err("SuspiciousPattern")
    ELSE IF ~ValidatePathname(Str(url)).ok THEN Err("InvalidPathname")
    ELSE
        LET pathname == SubSeq(url, FirstIn(url, 1, Atoms \ {"/"}), Len(url))
        IN  IF pathname = <<>> THEN Err("EmptyPathname") ELSE Ok(pathname)

\* Lines 53-77: the input treated as a pathname.
ExtractFromBarePath(url) ==
    IF Includes(ToLowerCase(url), <<":", "/", "/">>) THEN Err("MalformedInput")
    ELSE IF DomainPattern(url) THEN Err("SuspiciousPattern")
    ELSE IF ~ValidatePathname(Str(url)).ok THEN Err("InvalidPathname")
    ELSE
        LET pathname == IF StartsWith(url, <<"/">>) THEN Substring1(url) ELSE url
        IN  IF pathname = <<>> THEN Err("EmptyPathname") ELSE Ok(pathname)

ExtractPathnameFromUrl(v) ==
    IF v.kind # "str" \/ v.s = <<>> THEN Err("InvalidInput")
    ELSE
        LET parsedUrl == ParseURL(v.s)
        IN  IF parsedUrl.ok THEN ExtractFromParsedUrl(parsedUrl)
            ELSE ExtractFromBarePath(v.s)

-----------------------------------------------------------------------------
(* types.ts / index.ts: the bucket registry *)

\* STORAGE_BUCKETS: the five registered bucket names.
StorageBuckets ==
    {"attachments", "questionnaires", "knowledge-base", "org-assets", "fleet-agents"}

GetBucketPrefix(bucket) == <<bucket, "/">>

\* buildPathname: the prefix, then the key less one leading "/".
BuildPathnameStripAll(bucket, key) == GetBucketPrefix(bucket) \o StripLeadingSlashes(key)

BuildPathname(bucket, key) ==
    LET cleanKey == IF StartsWith(key, <<"/">>) THEN Substring1(key) ELSE key
    IN  GetBucketPrefix(bucket) \o cleanKey

-----------------------------------------------------------------------------
(* The inputs of the utility calls: a fixed prefix followed by every tail  *)
(* of at most MaxBody atoms.                                               *)

BodyAtoms == {"x", ".", "/", "\\", ":", NUL, "%2e", "%2f", "%5c", "%00", "%"}

Bodies == UNION {[1..k -> BodyAtoms] : k \in 0..MaxBody}

TrustedBlobHost == <<"x", ".", "blob", ".", "vercel-storage", ".", "com">>
LegacyS3Host == <<"x", ".", "s3", ".", "amazonaws", ".", "com">>
RegionalS3Host == <<"s3", "-", "x", ".", "amazonaws", ".", "com">>
OtherAwsHost == <<"x", ".", "amazonaws", ".", "com">>
UpperStoreHost == <<"x", ".", "VERCEL-STORAGE", ".", "COM">>

Prefixes ==
    { <<>>,
      <<"attachments", "/">>,
      <<"org-assets", "/", "x", "/">>,
      <<"https", ":", "/", "/">> \o TrustedBlobHost,
      <<"https", ":", "/", "/">> \o TrustedBlobHost \o <<"/", "attachments">>,
      <<"https", ":", "/", "/">> \o LegacyS3Host \o <<"/">>,
      <<"https", ":", "/", "/">> \o RegionalS3Host \o <<"/">>,
      <<"https", ":", "/", "/">> \o OtherAwsHost \o <<"/">>,
      <<"https", ":">>,
      <<"/", "x", ".", "com">>,
      <<"x", ":", "/", "/">> \o UpperStoreHost,
      <<"x", ".", "vercel-storage", ".", "com">> }

Inputs == {Str(p \o b) : p \in Prefixes, b \in Bodies} \cup NonStrings

-----------------------------------------------------------------------------
(* The backend: the blob store behind @vercel/blob and fetch *)

\* Longest list passed to deleteMany / deleteFiles.
MaxMany == 3

Absent == [present |-> FALSE, data |-> "none", contentType |-> "none"]
Object(d, ct) == [present |-> TRUE, data |-> d, contentType |-> ct]

Datas == {"b1", "b2"}
ContentTypes == {"application/pdf", "image/png"}

\* The keys the callers use: a bucket-qualified key, and the same key with a
\* traversal sequence in it, as deleteFile(bucket, key) builds them.
GoodKey == <<"attachments", "/", "x">>
TraversalKey == <<"attachments", "/", ".", ".", "/", "x">>
StoreKeys == {GoodKey, TraversalKey}

\* The public URL the store serves GoodKey at, and a URL of a foreign host.
StoreUrl == <<"https", ":", "/", "/">> \o TrustedBlobHost \o <<"/">> \o GoodKey
ForeignHost == <<"x", ".", "com">>
ForeignUrl == <<"https", ":", "/", "/">> \o ForeignHost \o <<"/", "x">>

\* What a caller may pass where a pathname is expected.
PathArgs == StoreKeys \cup {StoreUrl, ForeignUrl}

\* The endpoint @vercel/blob sends put / del / head requests to.
BlobApiHost == <<"blob", ".", "vercel-storage", ".", "com">>

\* What a call returned: nothing, null, a boolean, bytes or metadata.
Val(kind, data, contentType) == [kind |-> kind, data |-> data, contentType |-> contentType]
Void == Val("void", "none", "none")
Null == Val("null", "none", "none")

\* A provider call that has returned: the method, its pathname arguments, how
\* it ended, whether the backend answered, whether an object existed at the
\* (first) pathname when it was called, the position of the pathname the
\* backend failed on (0: none), and the value returned.
NoOp == [op |-> "none", args |-> <<>>, outcome |-> "none", up |-> TRUE,
         existed |-> FALSE, failed |-> 0, val |-> Void]

\* No copy in progress, and no URL issued yet.
Idle == [pc |-> "idle", src |-> <<>>, dst |-> <<>>, data |-> "none",
         contentType |-> "none", seen |-> {}]
NoUrl == [url |-> <<>>, download |-> "none", at |-> 0, expiresIn |-> 0,
          grantedAt |-> -1]

\* The stored key a URL or pathname given to the blob API names: the path of a
\* URL of this store, the pathname itself otherwise.  A URL of another host
\* names no object of the store.
\* new URL(p) for the arguments the callers pass, parsed once.
ParsedPathArgs ==
    [p \in PathArgs \cup {<<"https", ":", "/", "/">> \o TrustedBlobHost \o <<"/">> \o k :
                            k \in StoreKeys} |-> ParseURL(p)]
ParseArg(p) == parsedArgs[p]

BlobKeyOf(p) ==
    LET u == ParseArg(p)
    IN  IF ~u.ok THEN p
        ELSE IF u.host = TrustedBlobHost THEN Substring1(u.pathname)
        ELSE <<"unknown">>

-----------------------------------------------------------------------------
(* The state machine of the utility calls *)

StoreInit ==
    /\ blobs = [k \in StoreKeys |-> Absent]
    /\ requests = {}
    /\ storageInstance = "null"
    /\ constructed = 0
    /\ lastOp = NoOp
    /\ lastVia = "none"
    /\ pending = Idle
    /\ now = 0
    /\ issued = NoUrl
    /\ parsedArgs = ParsedPathArgs

\* No application action is in flight and its stores are empty.
AppIdle ==
    /\ db = <<>>
    /\ objects = {}
    /\ procs = <<>>
    /\ kv = <<>>

InitPaths ==
    /\ input \in Inputs
    /\ bucketArg = "none"
    /\ call = "none"
    /\ result = NoResult
    /\ StoreInit
    /\ AppIdle

CallValidatePathname ==
    /\ call = "none"
    /\ call' = "validatePathname"
    /\ result' = ValidatePathname(input)
    /\ UNCHANGED <<input, bucketArg, storeVars, appVars>>

CallExtractPathnameFromUrl ==
    /\ call = "none"
    /\ call' = "extractPathnameFromUrl"
    /\ result' = ExtractPathnameFromUrl(input)
    /\ UNCHANGED <<input, bucketArg, storeVars, appVars>>

NextPaths == CallValidatePathname \/ CallExtractPathnameFromUrl

SpecPaths == InitPaths /\ [][NextPaths]_vars

-----------------------------------------------------------------------------
(* utils.ts: content type, base64 and organisation paths *)

\* The mimeTypes table, by extension.
MimeTable ==
    [pdf |-> "application/pdf",
     doc |-> "application/msword",
     docx |-> "application/vnd.openxmlformats-officedocument.wordprocessingml.document",
     xls |-> "application/vnd.ms-excel",
     xlsx |-> "application/vnd.openxmlformats-officedocument.spreadsheetml.sheet",
     csv |-> "text/csv",
     txt |-> "text/plain",
     png |-> "image/png",
     jpg |-> "image/jpeg",
     jpeg |-> "image/jpeg",
     gif |-> "image/gif",
     webp |-> "image/webp",
     svg |-> "image/svg+xml",
     ico |-> "image/x-icon",
     zip |-> "application/zip",
     tar |-> "application/x-tar",
     gz |-> "application/gzip",
     dmg |-> "application/x-apple-diskimage",
     exe |-> "application/x-msdownload",
     msi |-> "application/x-msi",
     json |-> "application/json",
     xml |-> "application/xml",
     html |-> "text/html"]

\* mimeTypes is an object literal: a property it does not own is looked up
\* on Object.prototype, whose members are functions and objects.
ObjectPrototypeKeys == {"constructor", "__proto__"}
InheritedMember == "[object]"

\* mimeTypes[key]: the own entry, the inherited member, or undefined.
MimeLookup(key) ==
    IF Len(key) = 1 /\ key[1] \in DOMAIN MimeTable THEN MimeTable[key[1]]
    ELSE IF Len(key) = 1 /\ key[1] \in ObjectPrototypeKeys THEN InheritedMember
    ELSE "undefined"

\* filename.split('.').pop()?.toLowerCase(), then mimeTypes[ext || ''] ||
\* 'application/octet-stream'.
GetContentTypeFromFilename(filename) ==
    LET parts == SplitOn(filename, {"."})
        ext == ToLowerCase(parts[Len(parts)])
        found == MimeLookup(ext)
    IN  IF found = "undefined" THEN "application/octet-stream" ELSE found

\* The filenames: a dot, a letter, extensions in both cases, a member name.
FilenameAtoms == {".", "x", "pdf", "PDF", "jpeg", "constructor"}
Filenames == UNION {[1..k -> FilenameAtoms] : k \in 0..MaxBody}

InitNames ==
    /\ input \in {Str(f) : f \in Filenames}
    /\ bucketArg = "none"
    /\ call = "none"
    /\ result = NoResult
    /\ StoreInit
    /\ AppIdle

CallGetContentTypeFromFilename ==
    /\ call = "none"
    /\ call' = "getContentTypeFromFilename"
    /\ result' = Ok(<<GetContentTypeFromFilename(input.s)>>)
    /\ UNCHANGED <<input, bucketArg, storeVars, appVars>>

NextNames == CallGetContentTypeFromFilename

SpecNames == InitNames /\ [][NextNames]_vars

\* Base64 text is a sequence of symbols: 0..63 are the characters of the
\* base64 alphabet by their value ('A' = 0 ... 'a' = 26 ... '/' = 63), and
\* the symbols below are the other characters the code meets.
PadChar == 64
CommaChar == 65
ColonChar == 66
SemicolonChar == 67

\* buffer.toString('base64'): three bytes to four characters, "=" padding.
RECURSIVE BufferToBase64(_)
BufferToBase64(buffer) ==
    IF Len(buffer) = 0 THEN <<>>
    ELSE IF Len(buffer) = 1
    THEN <<buffer[1] \div 4, (buffer[1] % 4) * 16, PadChar, PadChar>>
    ELSE IF Len(buffer) = 2
    THEN LET n == (buffer[1] * 256 + buffer[2]) * 4
         IN  <<n \div 4096, (n \div 64) % 64, n % 64, PadChar>>
    ELSE LET n == buffer[1] * 65536 + buffer[2] * 256 + buffer[3]
         IN  <<n \div 262144, (n \div 4096) % 64, (n \div 64) % 64, n % 64>>
                 \o BufferToBase64(SubSeq(buffer, 4, Len(buffer)))

\* Buffer.from(text, 'base64'): characters outside the alphabet are skipped,
\* decoding ends at the first "=", four characters give three bytes and a
\* tail of two or three characters gives one or two.
RECURSIVE Base64Chars(_)
Base64Chars(text) ==
    IF text = <<>> \/ text[1] = PadChar THEN <<>>
    ELSE IF text[1] > PadChar THEN Base64Chars(Tail(text))
    ELSE <<text[1]>> \o Base64Chars(Tail(text))

RECURSIVE DecodeChars(_)
DecodeChars(c) ==
    IF Len(c) < 2 THEN <<>>
    ELSE IF Len(c) = 2 THEN <<(c[1] * 64 + c[2]) \div 16>>
    ELSE IF Len(c) = 3
    THEN LET n == (c[1] * 4096 + c[2] * 64 + c[3]) \div 4
         IN  <<n \div 256, n % 256>>
    ELSE LET n == c[1] * 262144 + c[2] * 4096 + c[3] * 64 + c[4]
         IN  <<n \div 65536, (n \div 256) % 256, n % 256>>
                 \o DecodeChars(SubSeq(c, 5, Len(c)))

BufferFromBase64(text) == DecodeChars(Base64Chars(text))

\* base64ToBuffer: of a text with a comma, what stands between the first and
\* the second comma is decoded; else the whole text.
Base64ToBufferNoStrip(base64) == BufferFromBase64(base64)

Base64ToBuffer(base64) ==
    LET base64Data == IF Includes(base64, <<CommaChar>>)
                      THEN SplitOn(base64, {CommaChar})[2]
                      ELSE base64
    IN  BufferFromBase64(base64Data)

\* 'data:' + mime + ';base64,' + payload.
DataUrl(mime, payload) ==
    <<29, 26, 45, 26, ColonChar>> \o mime
        \o <<SemicolonChar, 27, 26, 44, 30, 58, 56, CommaChar>> \o payload

\* The buffers (bytes 0, 1, 77, 255) and the MIME types image/png, text/csv.
Buffers == UNION {[1..k -> {0, 1, 77, 255}] : k \in 0..MaxBody}
MimeTypeTexts == {<<34, 38, 26, 32, 30, 63, 41, 39, 32>>, <<45, 30, 49, 45, 63, 28, 44, 47>>}

InitBase64 ==
    /\ input \in {[kind |-> "buffer", s |-> b] : b \in Buffers}
    /\ bucketArg = "none"
    /\ call = "none"
    /\ result = NoResult
    /\ StoreInit
    /\ AppIdle

\* base64ToBuffer(bufferToBase64(b)).
CallRoundTrip ==
    /\ call = "none"
    /\ call' = "roundTrip"
    /\ result' = Ok(Base64ToBuffer(BufferToBase64(input.s)))
    /\ UNCHANGED <<input, bucketArg, storeVars, appVars>>

\* base64ToBuffer of the data URL of bufferToBase64(b).
CallDataUrl ==
    /\ call = "none"
    /\ call' = "dataUrl"
    /\ \E m \in MimeTypeTexts :
          result' = Ok(Base64ToBuffer(DataUrl(m, BufferToBase64(input.s))))
    /\ UNCHANGED <<input, bucketArg, storeVars, appVars>>

NextBase64 == CallRoundTrip \/ CallDataUrl

SpecBase64 == InitBase64 /\ [][NextBase64]_vars

\* p.replace(/^\/+|\/+$/g, ''): the leading and the trailing "/"s removed.
RECURSIVE CleanPart(_)
CleanPart(p) ==
    IF p # <<>> /\ p[1] = "/" THEN CleanPart(Tail(p))
    ELSE IF p # <<>> /\ p[Len(p)] = "/" THEN CleanPart(SubSeq(p, 1, Len(p) - 1))
    ELSE p

\* buildOrgPath: `${orgId}/${cleanParts.join('/')}`.
BuildOrgPath(orgId, parts) ==
    LET cleanParts == [i \in 1..Len(parts) |-> CleanPart(parts[i])]
    IN  orgId \o <<"/">> \o JoinSlash(cleanParts)

\* parseOrgPath: null for fewer than two parts or an empty first part, else
\* the first part as orgId and the rest, joined, as path.
ParseOrgPath(pathname) ==
    LET cleanPath == IF StartsWith(pathname, <<"/">>) THEN Substring1(pathname)
                     ELSE pathname
        parts == SplitOn(cleanPath, {"/"})
    IN  IF Len(parts) < 2 \/ parts[1] = <<>> THEN Err("null")
        ELSE Ok(<<parts[1], JoinSlash(Tail(parts))>>)

\* The pathnames parseOrgPath is applied to, with and without a bucket
\* prefix, and the organisation ids (none of them holds a "/").
OrgPathnames ==
    {p \o b : p \in {<<>>, <<"attachments", "/">>},
              b \in UNION {[1..k -> {"x", "/"}] : k \in 0..MaxBody}}
OrgIds == {<<"x">>, <<"x", "x">>}

InitOrg ==
    /\ input \in {[kind |-> "str", s |-> p, orgId |-> o] : p \in OrgPathnames, o \in OrgIds}
    /\ bucketArg = "none"
    /\ call = "none"
    /\ result = NoResult
    /\ StoreInit
    /\ AppIdle

CallParseOrgPath ==
    /\ call = "none"
    /\ call' = "parseOrgPath"
    /\ result' = ParseOrgPath(input.s)
    /\ UNCHANGED <<input, bucketArg, storeVars, appVars>>

\* parseOrgPath(buildOrgPath(orgId, ...parts)) with no, one or two parts.
OrgParts(n) == SubSeq(<<input.s, <<"x">>>>, 1, n)

CallParseBuiltOrgPath ==
    /\ call = "none"
    /\ \E n \in 0..2 :
          /\ call' = <<"parseBuilt0", "parseBuilt1", "parseBuilt2">>[n + 1]
          /\ result' = ParseOrgPath(BuildOrgPath(input.orgId, OrgParts(n)))
    /\ UNCHANGED <<input, bucketArg, storeVars, appVars>>

NextOrg == CallParseOrgPath \/ CallParseBuiltOrgPath

SpecOrg == InitOrg /\ [][NextOrg]_vars

\* buildPathname applied to a registered bucket and a key.
InitBuild ==
    /\ input \in {Str(b) : b \in Bodies}
    /\ bucketArg \in StorageBuckets
    /\ call = "none"
    /\ result = NoResult
    /\ StoreInit
    /\ AppIdle

CallBuildPathname ==
    /\ call = "none"
    /\ call' = "buildPathname"
    /\ result' = Ok(BuildPathname(bucketArg, input.s))
    /\ UNCHANGED <<input, bucketArg, storeVars, appVars>>

NextBuild == CallBuildPathname

SpecBuild == InitBuild /\ [][NextBuild]_vars

-----------------------------------------------------------------------------
(* Properties of the pathname utilities *)

IsString(v) == v.kind = "str"
IsUrl(v) == IsString(v) /\ ParseURL(v.s).ok

\* The text holds "../" or "..\" or a null byte, written position by position.
HasTraversalOrNul(s) ==
    \/ \E i \in 1..(Len(s) - 2) :
          s[i] = "." /\ s[i + 1] = "." /\ s[i + 2] \in {"/", "\\"}
    \/ \E i \in 1..Len(s) : s[i] = NUL

NoBackendEffect == blobs = [k \in StoreKeys |-> Absent] /\ requests = {}

\* C1: validatePathname(p) throws InvalidPathname exactly when p is empty, is
\* not a string, or holds "../", "..\" or a null byte; otherwise it returns;
\* either way nothing but its result changes.
C1_ValidateExactly ==
    call = "validatePathname" =>
        /\ result.ok <=> (IsString(input) /\ input.s # <<>> /\ ~HasTraversalOrNul(input.s))
        /\ ~result.ok => result.err = "InvalidPathname"
        /\ NoBackendEffect

\* A pathname rejected only for its backslash traversal.
C1_Witness ==
    /\ call = "validatePathname"
    /\ ~result.ok
    /\ IsString(input)
    /\ Includes(input.s, <<".", ".", "\\">>)
    /\ ~Includes(input.s, <<".", ".", "/">>)
    /\ ~Includes(input.s, <<NUL>>)

\* Walking the "/"-separated segments of p, whether a ".." segment climbs
\* above the first segment: depth counts the named segments entered so far.
RECURSIVE ClimbsOut(_, _)
ClimbsOut(segs, depth) ==
    IF segs = <<>> THEN FALSE
    ELSE IF Head(segs) = <<".", ".">>
         THEN depth - 1 < 1 \/ ClimbsOut(Tail(segs), depth - 1)
    ELSE IF Head(segs) \in {<<>>, <<".">>} THEN ClimbsOut(Tail(segs), depth)
    ELSE ClimbsOut(Tail(segs), depth + 1)

ResolvesInsideFirstSegment(p) == ~ClimbsOut(SplitOn(p, {"/"}), 0)

\* C2: every pathname validatePathname accepts, and every pathname
\* extractPathnameFromUrl returns, that begins with a bucket prefix resolves
\* inside that bucket when its "." and ".." segments are interpreted.
C2_AcceptedResolvesInside ==
    (call \in {"validatePathname", "extractPathnameFromUrl"} /\ result.ok
        /\ \E b \in StorageBuckets : StartsWith(result.val, GetBucketPrefix(b)))
        => ResolvesInsideFirstSegment(result.val)

\* The URL's path, percent-decoded, without its leading "/".
DecodedPathOf(u) ==
    LET d == DecodeURIComponent(u.pathname)
    IN  IF ~d.ok THEN d
        ELSE IF StartsWith(d.val, <<"/">>) THEN Ok(Tail(d.val))
        ELSE Ok(d.val)

\* The host lies in one of the two domain families the allow-list names.
InStorageDomainFamily(h) ==
    \/ EndsWith(ToLowerCase(h), <<"vercel-storage", ".", "com">>)
    \/ EndsWith(ToLowerCase(h), <<"amazonaws", ".", "com">>)

C4_SchemeSeparatorRejected ==
    (call = "extractPathnameFromUrl" /\ IsString(input) /\ ~IsUrl(input)
        /\ Includes(input.s, <<":", "/", "/">>))
        => result = Err("MalformedInput")

\* A "://" in the middle of a string that would otherwise pass as a pathname.
C4_Witness ==
    /\ call = "extractPathnameFromUrl"
    /\ result = Err("MalformedInput")
    /\ StartsWith(input.s, <<"attachments", "/">>)
    /\ ~HasTraversalOrNul(input.s)

\* C5: an input that does not parse as a URL, holds no "://" and has the shape
\* of a domain name is rejected with SuspiciousPattern, whatever
\* validatePathname would say of it; the shape is tested on the input as
\* given, before a leading "/" is stripped.
C5_DomainShapeRejected ==
    /\ (call = "extractPathnameFromUrl" /\ IsString(input) /\ ~IsUrl(input)
          /\ ~Includes(input.s, <<":", "/", "/">>) /\ DomainPattern(input.s))
          => result = Err("SuspiciousPattern")
    /\ (call = "extractPathnameFromUrl" /\ result = Err("SuspiciousPattern"))
          => ~StartsWith(input.s, <<"/">>)

\* A domain-shaped input that validatePathname would reject as well.
C5_Witness ==
    /\ call = "extractPathnameFromUrl"
    /\ result = Err("SuspiciousPattern")
    /\ HasTraversalOrNul(input.s)

StripOneSlash(s) == IF s # <<>> /\ s[1] = "/" THEN Tail(s) ELSE s

\* C6 as stated: every non-URL input that passes validatePathname comes back
\* with one leading "/" stripped and otherwise unchanged, the result does not
\* begin with "/", and an empty stripped result fails with EmptyPathname.
C6_Original ==
    (call = "extractPathnameFromUrl" /\ IsString(input) /\ ~IsUrl(input)
        /\ ValidatePathname(input).ok) =>
        IF StripOneSlash(input.s) = <<>>
        THEN result = Err("EmptyPathname")
        ELSE /\ result = Ok(StripOneSlash(input.s))
             /\ result.val[1] # "/"

\* C6 amended: the same for the non-URL inputs that also hold no "://" and
\* have no domain-name shape; the result begins with "/" exactly when the
\* input began with "//".
C6_BarePathStripped ==
    (call = "extractPathnameFromUrl" /\ IsString(input) /\ ~IsUrl(input)
        /\ ~Includes(input.s, <<":", "/", "/">>) /\ ~DomainPattern(input.s)
        /\ ValidatePathname(input).ok) =>
        IF StripOneSlash(input.s) = <<>>
        THEN result = Err("EmptyPathname")
        ELSE /\ result = Ok(StripOneSlash(input.s))
             /\ result.val[1] = "/" <=> StartsWith(input.s, <<"/", "/">>)

\* A bucket-qualified key given with a leading "/" and returned without it.
C6_Witness ==
    /\ call = "extractPathnameFromUrl"
    /\ IsString(input)
    /\ StartsWith(input.s, <<"/">>)
    /\ result.ok
    /\ result.val = Tail(input.s)
    /\ Len(result.val) >= 2

\* C7: every pathname extractPathnameFromUrl returns begins with one of the
\* five registered bucket prefixes.
C7_ResultHasBucketPrefix ==
    (call = "extractPathnameFromUrl" /\ result.ok)
        => \E b \in StorageBuckets : StartsWith(result.val, GetBucketPrefix(b))

-----------------------------------------------------------------------------
(* blob-provider.ts: VercelBlobProvider, and index.ts: the storage handle *)

\* this.token: BLOB_READ_WRITE_TOKEN, read once by the constructor.
BlobToken == "token"

\* resolveUrl: both branches return the argument as it is.
ResolveUrl(pathname) ==
    IF StartsWith(pathname, <<"https", ":", "/", "/">>) THEN pathname ELSE pathname

Request(op, host, keys) ==
    [op |-> op, host |-> host, auth |-> BlobToken # "", keys |-> keys]

\* fetch(url, {headers}): a string that is no http(s) URL is a TypeError and
\* sends nothing; otherwise the request, with the Authorization header, goes
\* to the URL's host.  The store answers 200 for an object it holds and 404
\* otherwise; another host answers as it likes (foreignOk).
Fetch(url, up, foreignOk) ==
    LET u == ParseArg(url)
    IN  IF ~u.ok \/ ~u.special
        THEN [outcome |-> "TypeError", requests |-> {}, data |-> "none"]
        ELSE
            LET req == {Request("fetch", u.host, <<url>>)}
                key == Substring1(u.pathname)
            IN  IF ~up
                THEN [outcome |-> "BackendError", requests |-> req, data |-> "none"]
                ELSE IF u.host = TrustedBlobHost
                THEN IF key \in StoreKeys /\ blobs[key].present
                     THEN [outcome |-> "ok", requests |-> req, data |-> blobs[key].data]
                     ELSE [outcome |-> "NotFound", requests |-> req, data |-> "none"]
                ELSE IF foreignOk
                THEN [outcome |-> "ok", requests |-> req, data |-> "foreign"]
                ELSE [outcome |-> "NotFound", requests |-> req, data |-> "none"]

\* del(urls, {token}): one request to the blob API; the objects named are
\* removed, and naming an object that does not exist is no error.
DelOutcomeNotFound(urls, up) ==
    IF ~up THEN "BackendError"
    ELSE IF \E i \in 1..Len(urls) :
              BlobKeyOf(urls[i]) \notin StoreKeys \/ ~blobs[BlobKeyOf(urls[i])].present
    THEN "NotFound"
    ELSE "ok"

DelOutcome(urls, up) == IF up THEN "ok" ELSE "BackendError"

DelBlobs(urls, up) ==
    IF DelOutcome(urls, up) # "ok" THEN blobs
    ELSE [k \in StoreKeys |->
            IF \E i \in 1..Len(urls) : BlobKeyOf(urls[i]) = k THEN Absent ELSE blobs[k]]

\* del(urls, {token}) when the backend fails on the URL at position failAt:
\* the request is one batch, and which of the other objects the backend has
\* removed by then is its own affair: none, those before the failing one, or
\* all the others.
PartialOutcomes == {"none", "before", "others"}

Removed(urls, failAt, partial) ==
    IF failAt = 0 THEN 1..Len(urls)
    ELSE IF partial = "none" THEN {}
    ELSE IF partial = "before" THEN 1..(failAt - 1)
    ELSE (1..Len(urls)) \ {failAt}

DelManyOutcome(urls, up, failAt) ==
    IF up /\ failAt = 0 THEN "ok" ELSE "BackendError"

DelManyBlobs(urls, up, failAt, partial) ==
    IF ~up THEN blobs
    ELSE [k \in StoreKeys |->
            IF \E i \in Removed(urls, failAt, partial) : BlobKeyOf(urls[i]) = k
            THEN Absent ELSE blobs[k]]

\* getStorage(): the provider is constructed on first use and cached.
ViaHandleAlwaysConstruct ==
    /\ storageInstance' = "provider"
    /\ constructed' = constructed + 1

ViaHandle ==
    /\ storageInstance' = "provider"
    /\ constructed' = IF storageInstance = "null" THEN constructed + 1 ELSE constructed

\* A call on a VercelBlobProvider the caller holds.
ViaProvider == UNCHANGED <<storageInstance, constructed>>

\* The storage proxy: the property read yields a wrapper which, when called,
\* gets the instance and applies the instance's method to the arguments.
ForwardNoApply(Method) ==
    /\ ViaHandle
    /\ lastVia' = "handle"
    /\ UNCHANGED <<blobs, requests, lastOp, pathVars, appVars, copyVars, urlVars>>

Forward(Method) ==
    /\ ViaHandle
    /\ lastVia' = "handle"
    /\ Method

Direct(Method) ==
    /\ ViaProvider
    /\ lastVia' = "provider"
    /\ Method

Via(handle, Method) == IF handle THEN Forward(Method) ELSE Direct(Method)

Existed(p) == BlobKeyOf(p) \in StoreKeys /\ blobs[BlobKeyOf(p)].present

ReturnedWith(op, args, outcome, up, failed, val) ==
    lastOp' = [op |-> op, args |-> args, outcome |-> outcome, up |-> up,
               existed |-> args # <<>> /\ Existed(args[1]),
               failed |-> failed, val |-> val]

Returned(op, args, outcome, up) == ReturnedWith(op, args, outcome, up, 0, Void)

\* upload: put(pathname, data, {access, token, contentType, ...}).
UploadPut(pathname, data, contentType, up) ==
    /\ requests' = {Request("put", BlobApiHost, <<pathname>>)}
    /\ blobs' = IF up THEN [blobs EXCEPT ![pathname] = Object(data, contentType)]
                ELSE blobs
    /\ ReturnedWith("upload", <<pathname>>, IF up THEN "ok" ELSE "BackendError", up,
                    0, IF up THEN Val("meta", "none", contentType) ELSE Void)

UploadCall(pathname, data, contentType, up) ==
    /\ UploadPut(pathname, data, contentType, up)
    /\ UNCHANGED <<pathVars, appVars, copyVars, urlVars>>

Upload(handle, pathname, data, contentType, up) ==
    Via(handle, UploadCall(pathname, data, contentType, up))

\* download / downloadStream: fetch(resolveUrl(pathname)) with the token.
DownloadCall(op, pathname, up, foreignOk) ==
    LET r == Fetch(ResolveUrl(pathname), up, foreignOk)
    IN  /\ requests' = r.requests
        /\ ReturnedWith(op, <<pathname>>, r.outcome, up, 0,
                        IF r.outcome = "ok" THEN Val("bytes", r.data, "none") ELSE Void)
        /\ UNCHANGED <<blobs, pathVars, appVars, copyVars, urlVars>>

Download(handle, op, pathname, up, foreignOk) ==
    Via(handle, DownloadCall(op, pathname, up, foreignOk))

\* delete: del(resolveUrl(pathname), {token}).
DeleteDel(pathname, up) ==
    LET urls == <<ResolveUrl(pathname)>>
    IN  /\ requests' = {Request("del", BlobApiHost, urls)}
        /\ blobs' = DelBlobs(urls, up)
        /\ Returned("delete", <<pathname>>, DelOutcome(urls, up), up)

DeleteCall(pathname, up) ==
    /\ DeleteDel(pathname, up)
    /\ UNCHANGED <<pathVars, appVars, copyVars, urlVars>>

Delete(handle, pathname, up) == Via(handle, DeleteCall(pathname, up))

\* deleteMany: nothing for an empty list, else one del of all the URLs; an
\* error of that one request is the error of deleteMany.
DeleteManyCall(pathnames, up, failAt, partial) ==
    LET urls == [i \in 1..Len(pathnames) |-> ResolveUrl(pathnames[i])]
    IN  /\ IF pathnames = <<>>
           THEN /\ requests' = {}
                /\ blobs' = blobs
                /\ ReturnedWith("deleteMany", pathnames, "ok", up, 0, Void)
           ELSE /\ requests' = {Request("del", BlobApiHost, urls)}
                /\ blobs' = DelManyBlobs(urls, up, failAt, partial)
                /\ ReturnedWith("deleteMany", pathnames,
                                DelManyOutcome(urls, up, failAt), up,
                                IF up THEN failAt ELSE 0, Void)
        /\ UNCHANGED <<pathVars, appVars, copyVars, urlVars>>

DeleteMany(handle, pathnames, up, failAt, partial) ==
    Via(handle, DeleteManyCall(pathnames, up, failAt, partial))

\* The URL the store serves the object with key k at.
PublicUrl(k) == <<"https", ":", "/", "/">> \o TrustedBlobHost \o <<"/">> \o k

\* The content type put gives an object uploaded without one.
DefaultContentType == "application/octet-stream"

\* head(url, {token}) of @vercel/blob: the metadata of the object, or an error
\* thrown: BlobNotFoundError for no object, another error when the backend
\* fails.
HeadBlob(pathname, up) ==
    LET k == BlobKeyOf(ResolveUrl(pathname))
    IN  IF ~up THEN [outcome |-> "BackendError", val |-> Void]
        ELSE IF k \in StoreKeys /\ blobs[k].present
        THEN [outcome |-> "ok", val |-> Val("meta", "none", blobs[k].contentType)]
        ELSE [outcome |-> "NotFound", val |-> Void]

\* head: the metadata; null for a falsy result and for anything thrown.
HeadResultNoCatch(pathname, up) == HeadBlob(pathname, up)

HeadResult(pathname, up) ==
    LET r == HeadBlob(pathname, up)
    IN  IF r.outcome = "ok" THEN r ELSE [outcome |-> "ok", val |-> Null]

HeadCall(pathname, up) ==
    LET r == HeadResult(pathname, up)
    IN  /\ requests' = {Request("head", BlobApiHost, <<ResolveUrl(pathname)>>)}
        /\ ReturnedWith("head", <<pathname>>, r.outcome, up, 0, r.val)
        /\ UNCHANGED <<blobs, pathVars, appVars, copyVars, urlVars>>

HeadObject(handle, pathname, up) == Via(handle, HeadCall(pathname, up))

\* exists: head(pathname) !== null.
ExistsCall(pathname, up) ==
    LET r == HeadResult(pathname, up)
    IN  /\ requests' = {Request("head", BlobApiHost, <<ResolveUrl(pathname)>>)}
        /\ ReturnedWith("exists", <<pathname>>, r.outcome, up, 0,
                        IF r.outcome # "ok" THEN Void
                        ELSE IF r.val # Null THEN Val("true", "none", "none")
                        ELSE Val("false", "none", "none"))
        /\ UNCHANGED <<blobs, pathVars, appVars, copyVars, urlVars>>

Exists(handle, pathname, up) == Via(handle, ExistsCall(pathname, up))

\* getUrl: "File not found" when head gave null; else the object's public
\* URL, with a download parameter when options.download is set.  The option
\* expiresIn is not read.  download is "none" (not set), "1" or the filename.
UrlOptions == [expiresIn : {0, 1}, download : {"none", "1", "f"}]

GetUrlCall(pathname, options, up) ==
    LET r == HeadResult(pathname, up)
        k == BlobKeyOf(ResolveUrl(pathname))
    IN  /\ requests' = {Request("head", BlobApiHost, <<ResolveUrl(pathname)>>)}
        /\ IF r.outcome # "ok"
           THEN /\ ReturnedWith("getUrl", <<pathname>>, r.outcome, up, 0, Void)
                /\ UNCHANGED issued
           ELSE IF r.val = Null
           THEN /\ ReturnedWith("getUrl", <<pathname>>, "NotFound", up, 0, Void)
                /\ UNCHANGED issued
           ELSE /\ ReturnedWith("getUrl", <<pathname>>, "ok", up, 0,
                                Val("url", "none", "none"))
                /\ issued' = [url |-> PublicUrl(k), download |-> options.download,
                              at |-> now, expiresIn |-> options.expiresIn,
                              grantedAt |-> -1]
        /\ UNCHANGED <<blobs, now, pathVars, appVars, copyVars>>

GetUrl(handle, pathname, options, up) == Via(handle, GetUrlCall(pathname, options, up))

\* Time passes.
MaxTime == 2

Tick ==
    /\ now < MaxTime
    /\ now' = now + 1
    /\ UNCHANGED <<blobs, requests, lastOp, issued, handleVars, pathVars, appVars, copyVars>>

\* Somebody opens the URL getUrl returned.  Objects are stored with access
\* 'public': the store serves the object at its URL to anyone, for as long as
\* the object exists.
OpenUrl ==
    LET k == BlobKeyOf(issued.url)
        found == k \in StoreKeys /\ blobs[k].present
    IN  /\ issued.url # <<>>
        /\ requests' = {}
        /\ ReturnedWith("open", <<issued.url>>, IF found THEN "ok" ELSE "NotFound",
                        TRUE, 0,
                        IF found THEN Val("bytes", blobs[k].data, blobs[k].contentType)
                        ELSE Void)
        /\ issued' = IF found THEN [issued EXCEPT !.grantedAt = now] ELSE issued
        /\ UNCHANGED <<blobs, now, handleVars, pathVars, appVars, copyVars>>

\* copy: download(source), then head(source), then upload(dest, data,
\* {contentType: headResult?.contentType}).  Each await is a point where other
\* callers' requests reach the backend.
CopyDownload(src, dst, up, foreignOk) ==
    LET r == Fetch(ResolveUrl(src), up, foreignOk)
        k == BlobKeyOf(ResolveUrl(src))
    IN  /\ pending.pc = "idle"
        /\ requests' = r.requests
        /\ IF r.outcome = "ok"
           THEN /\ pending' = [pc |-> "head", src |-> src, dst |-> dst,
                               data |-> r.data, contentType |-> "none",
                               seen |-> IF k \in StoreKeys THEN {blobs[k]} ELSE {}]
                /\ UNCHANGED lastOp
           ELSE /\ ReturnedWith("copy", <<src, dst>>, r.outcome, up, 0, Void)
                /\ UNCHANGED pending
        /\ UNCHANGED <<blobs, handleVars, pathVars, appVars, urlVars>>

CopyHead(up) ==
    LET r == HeadResult(pending.src, up)
    IN  /\ pending.pc = "head"
        /\ requests' = {Request("head", BlobApiHost, <<ResolveUrl(pending.src)>>)}
        /\ IF r.outcome # "ok"
           THEN /\ ReturnedWith("copy", <<pending.src, pending.dst>>, r.outcome, up, 0, Void)
                /\ pending' = Idle
           ELSE /\ pending' = [pending EXCEPT
                                 !.pc = "upload",
                                 !.contentType = IF r.val = Null THEN "undefined"
                                                 ELSE r.val.contentType]
                /\ UNCHANGED lastOp
        /\ UNCHANGED <<blobs, handleVars, pathVars, appVars, urlVars>>

CopyUpload(up) ==
    LET ct == IF pending.contentType = "undefined" THEN DefaultContentType
              ELSE pending.contentType
    IN  /\ pending.pc = "upload"
        /\ requests' = {Request("put", BlobApiHost, <<pending.dst>>)}
        /\ blobs' = IF up THEN [blobs EXCEPT ![pending.dst] = Object(pending.data, ct)]
                    ELSE blobs
        /\ ReturnedWith("copy", <<pending.src, pending.dst>>,
                        IF up THEN "ok" ELSE "BackendError", up, 0,
                        IF up THEN Val("meta", "none", ct) ELSE Void)
        /\ pending' = Idle
        /\ UNCHANGED <<handleVars, pathVars, appVars, urlVars>>

-----------------------------------------------------------------------------
(* The app's storage module: helpers that build `${bucket}/${key}` *)

HelperKeys == {<<"x">>, <<".", ".", "/", "x">>}

BucketKey(bkt, key) == <<bkt, "/">> \o key

UploadFile(bkt, key, data, contentType, up) ==
    Upload(TRUE, BucketKey(bkt, key), data, contentType, up)

DeleteFile(bkt, key, up) == Delete(TRUE, BucketKey(bkt, key), up)

DeleteFiles(bkt, keys, up, failAt, partial) ==
    DeleteMany(TRUE, [i \in 1..Len(keys) |-> BucketKey(bkt, keys[i])], up, failAt, partial)

-----------------------------------------------------------------------------
(* The state machine of the provider *)

\* The lists deleteMany is called with: up to MaxMany different pathnames.
Injective(f) == \A i, j \in DOMAIN f : f[i] = f[j] => i = j
Lists(S) == {f \in UNION {[1..n -> S] : n \in 0..MaxMany} : Injective(f)}
PathLists == Lists(PathArgs \ {StoreUrl})
HelperLists == Lists(HelperKeys)

\* The ways the backend, when it answers, can fail on one URL of a batch of n.
Failures(n, up) ==
    {<<0, "none">>} \cup
        (IF up THEN {<<i, m>> : i \in 1..n, m \in PartialOutcomes} ELSE {})

Init ==
    /\ input = Str(<<>>)
    /\ bucketArg = "none"
    /\ call = "none"
    /\ result = NoResult
    /\ StoreInit
    /\ AppIdle

Next ==
    \/ \E h \in BOOLEAN, p \in StoreKeys, d \in Datas, ct \in ContentTypes, up \in BOOLEAN :
          Upload(h, p, d, ct, up)
    \/ \E h \in BOOLEAN, p \in PathArgs, up \in BOOLEAN, f \in BOOLEAN :
          Download(h, "download", p, up, f)
    \/ \E h \in BOOLEAN, p \in PathArgs, up \in BOOLEAN, f \in BOOLEAN :
          Download(h, "downloadStream", p, up, f)
    \/ \E h \in BOOLEAN, p \in PathArgs, up \in BOOLEAN : Delete(h, p, up)
    \/ \E ps \in PathLists, up \in BOOLEAN :
          \E f \in Failures(Len(ps), up) : DeleteMany(FALSE, ps, up, f[1], f[2])
    \/ \E h \in BOOLEAN, p \in PathArgs, up \in BOOLEAN : HeadObject(h, p, up)
    \/ \E h \in BOOLEAN, p \in PathArgs, up \in BOOLEAN : Exists(h, p, up)
    \/ \E k \in HelperKeys, d \in Datas, ct \in ContentTypes, up \in BOOLEAN :
          UploadFile("attachments", k, d, ct, up)
    \/ \E k \in HelperKeys, up \in BOOLEAN : DeleteFile("attachments", k, up)
    \/ \E ks \in HelperLists, up \in BOOLEAN :
          \E f \in Failures(Len(ks), up) : DeleteFiles("attachments", ks, up, f[1], f[2])

Spec == Init /\ [][Next]_vars

-----------------------------------------------------------------------------
(* The state machine of the read operations and the URLs they hand out *)

ReadArgs == {GoodKey, StoreUrl, ForeignUrl}

NextRead ==
    \/ \E d \in Datas, ct \in ContentTypes : Upload(FALSE, GoodKey, d, ct, TRUE)
    \/ \E p \in {GoodKey, StoreUrl} : Delete(FALSE, p, TRUE)
    \/ \E p \in ReadArgs, up \in BOOLEAN, f \in BOOLEAN : Download(FALSE, "download", p, up, f)
    \/ \E p \in ReadArgs, up \in BOOLEAN : HeadObject(FALSE, p, up)
    \/ \E p \in ReadArgs, up \in BOOLEAN : Exists(FALSE, p, up)
    \/ \E p \in ReadArgs, o \in UrlOptions, up \in BOOLEAN : GetUrl(FALSE, p, o, up)
    \/ Tick
    \/ OpenUrl

SpecRead == Init /\ [][NextRead]_vars

-----------------------------------------------------------------------------
(* The state machine of copy, run next to other callers' uploads and deletes *)

CopySources == {GoodKey, StoreUrl, ForeignUrl}

\* pending.seen: every object the source has held since copy downloaded it.
Observe ==
    LET k == BlobKeyOf(pending.src)
    IN  pending' = IF pending.pc # "idle" /\ k \in StoreKeys
                   THEN [pending EXCEPT !.seen = @ \cup {blobs'[k]}]
                   ELSE pending

\* Another caller's upload or delete, between the steps of copy.
OtherUpload(pathname, data, contentType) ==
    Direct(/\ UploadPut(pathname, data, contentType, TRUE)
           /\ Observe
           /\ UNCHANGED <<pathVars, appVars, urlVars>>)

OtherDelete(pathname) ==
    Direct(/\ DeleteDel(pathname, TRUE)
           /\ Observe
           /\ UNCHANGED <<pathVars, appVars, urlVars>>)

NextCopy ==
    \/ \E d \in Datas, ct \in ContentTypes : OtherUpload(GoodKey, d, ct)
    \/ OtherDelete(GoodKey)
    \/ \E src \in CopySources, dst \in StoreKeys, up \in BOOLEAN, f \in BOOLEAN :
          CopyDownload(src, dst, up, f)
    \/ \E up \in BOOLEAN : CopyHead(up)
    \/ \E up \in BOOLEAN : CopyUpload(up)

SpecCopy == Init /\ [][NextCopy]_vars

-----------------------------------------------------------------------------
(* Properties of the provider *)

\* A host the allow-list trusts, or the blob API's own endpoint.
TrustedBackendHost(h) == IsValidStorageHost(h) \/ h = BlobApiHost

\* C8: every request that download, downloadStream, delete or deleteMany
\* sends, and the credential attached to it, goes to a trusted storage host.
C8_RequestsOnlyToTrustedHosts ==
    lastOp.op \in {"download", "downloadStream", "delete", "deleteMany"}
        => \A r \in requests : TrustedBackendHost(r.host)

\* C9: no put or del request is sent for a pathname validatePathname rejects.
C9_NoBackendCallForInvalidPathname ==
    \A r \in requests :
        r.op \in {"put", "del"}
            => \A i \in 1..Len(r.keys) : ValidatePathname(Str(r.keys[i])).ok

\* C10: with the backend answering, delete(p) succeeds whether or not an
\* object existed at p and leaves none there; a second delete(p) right after a
\* successful one succeeds as well and changes nothing.
C10_DeleteIdempotent ==
    /\ [](lastOp.op = "delete" /\ lastOp.up
            => lastOp.outcome = "ok" /\ ~Existed(lastOp.args[1]))
    /\ [][(/\ lastOp.op = "delete"
           /\ lastOp.outcome = "ok"
           /\ lastOp'.op = "delete"
           /\ lastOp'.args = lastOp.args
           /\ lastOp'.up)
            => lastOp'.outcome = "ok" /\ blobs' = blobs]_vars

\* A delete that succeeded on a pathname where no object existed.
C10_Witness ==
    /\ lastOp.op = "delete"
    /\ lastOp.outcome = "ok"
    /\ ~lastOp.existed
    /\ lastOp.args[1] \in StoreKeys

\* C11: when the backend fails on one pathname of a deleteMany, the objects
\* at the other pathnames are deleted all the same.
C11_DeleteManyToleratesFailure ==
    lastOp.op = "deleteMany" /\ lastOp.failed > 0
        => \A i \in 1..Len(lastOp.args) :
              i # lastOp.failed => ~Existed(lastOp.args[i])

-----------------------------------------------------------------------------
(* Properties of copy *)

\* A step of copy that ends it at the download, passes the download, passes
\* the metadata lookup, or ends it at the upload.
CopyFailsAtDownload ==
    pending.pc = "idle" /\ pending'.pc = "idle" /\ lastOp'.op = "copy"
CopyDownloaded == pending.pc = "idle" /\ pending'.pc = "head"
CopyLookedUp == pending.pc = "head" /\ pending'.pc = "upload"
CopyEnds == pending.pc = "upload" /\ pending'.pc = "idle"

\* C12: a copy that fails leaves every object as it was, and fails with
\* NotFound when the backend answers and no object exists at src; a copy
\* gets past its download only if an object exists at src, with that object's
\* bytes; a copy that succeeds writes exactly those bytes at dst and changes
\* no other object.
C12_CopyAllOrNothing ==
    [][/\ CopyFailsAtDownload
            => /\ lastOp'.outcome # "ok"
               /\ blobs' = blobs
               /\ (lastOp'.up /\ ~lastOp'.existed => lastOp'.outcome = "NotFound")
       /\ CopyDownloaded /\ pending'.src # ForeignUrl
            => /\ blobs' = blobs
               /\ Existed(pending'.src)
               /\ pending'.data = blobs[BlobKeyOf(pending'.src)].data
       /\ CopyLookedUp => blobs' = blobs
       /\ CopyEnds
            => IF lastOp'.outcome = "ok"
               THEN /\ blobs'[pending.dst].present
                    /\ blobs'[pending.dst].data = pending.data
                    /\ \A k \in StoreKeys \ {pending.dst} : blobs'[k] = blobs[k]
               ELSE blobs' = blobs]_vars

\* C13: the (bytes, content type) pair a successful copy writes at dst is a
\* pair the source held at some instant between the download and the upload.
C13_CopyPairFromOneInstant ==
    [][CopyEnds /\ lastOp'.outcome = "ok" /\ pending.src # ForeignUrl
            => blobs'[pending.dst] \in pending.seen]_vars

-----------------------------------------------------------------------------
(* Properties of the read operations *)

\* C14: head ends normally with metadata or null, null when no object exists;
\* exists ends normally with a boolean, false exactly when head has no
\* metadata to give; whatever the backend does.
C14_HeadExistsNeverFail ==
    /\ lastOp.op = "head"
        => /\ lastOp.outcome = "ok"
           /\ lastOp.val.kind \in {"meta", "null"}
           /\ (~lastOp.existed => lastOp.val = Null)
           /\ (lastOp.existed /\ lastOp.up => lastOp.val.kind = "meta")
    /\ lastOp.op = "exists"
        => /\ lastOp.outcome = "ok"
           /\ lastOp.val.kind \in {"true", "false"}
           /\ (lastOp.val.kind = "false"
                  <=> HeadResult(lastOp.args[1], lastOp.up).val = Null)
           /\ (lastOp.existed /\ lastOp.up => lastOp.val.kind = "true")

\* head of an object that exists, with the backend failing: null.
C14_Witness ==
    /\ lastOp.op = "head"
    /\ lastOp.existed
    /\ ~lastOp.up
    /\ lastOp.val = Null

\* C15: getUrl and download end in NotFound only when no object exists at the
\* pathname, and a backend failure during head, getUrl or a download request
\* reaches the caller as a backend error.
C15_NotFoundDistinct ==
    /\ lastOp.op \in {"getUrl", "download"} /\ lastOp.outcome = "NotFound"
        => ~lastOp.existed
    /\ (/\ lastOp.op \in {"head", "getUrl", "download"}
        /\ ~lastOp.up
        /\ (lastOp.op = "download" => ParseArg(lastOp.args[1]).ok))
        => lastOp.outcome = "BackendError"

\* C16: a URL issued with expiresIn n has granted access only within n
\* seconds of being issued.
C16_UrlExpires ==
    issued.expiresIn > 0 => issued.grantedAt <= issued.at + issued.expiresIn

\* C17: with the backend answering, download(p) of a pathname p at which an
\* object was uploaded yields that object's bytes.
C17_DownloadYieldsUpload ==
    (/\ lastOp.op = "download"
     /\ lastOp.up
     /\ lastOp.args[1] \in StoreKeys
     /\ lastOp.existed)
        => /\ lastOp.outcome = "ok"
           /\ lastOp.val = Val("bytes", blobs[lastOp.args[1]].data, "none")

-----------------------------------------------------------------------------
(* Properties of buildPathname *)

\* C18 as stated: the result is the bucket name, "/", and the key with its
\* leading separator stripped, and exactly one separator stands between the
\* prefix and the key.
C18_Original ==
    call = "buildPathname"
        => /\ result = Ok(<<bucketArg, "/">> \o StripOneSlash(input.s))
           /\ (Len(result.val) > 2 => result.val[3] # "/")

\* C18: for every registered bucket and every key, buildPathname returns the
\* bucket name, "/", and the key with a single leading "/" stripped and the
\* rest unchanged, whatever the key holds; the prefix is followed by a second
\* "/" exactly when the key began with "//".
C18_BuildPathname ==
    call = "buildPathname"
        => /\ result.ok
           /\ Len(result.val) >= 2
           /\ result.val[1] = bucketArg
           /\ result.val[2] = "/"
           /\ SubSeq(result.val, 3, Len(result.val)) = StripOneSlash(input.s)
           /\ ((Len(result.val) > 2 /\ result.val[3] = "/")
                  <=> StartsWith(input.s, <<"/", "/">>))

\* buildPathname('org-assets', '/x...') with its leading "/" stripped.
C18_Witness ==
    /\ call = "buildPathname"
    /\ bucketArg = "org-assets"
    /\ StartsWith(input.s, <<"/", "x">>)
    /\ StartsWith(result.val, <<"org-assets", "/", "x">>)

-----------------------------------------------------------------------------
(* Properties of the storage handle *)

\* C19: at most one provider is ever constructed; none exists until a call
\* is made through the handle, the first such call constructs it, and every
\* later call finds that same instance.
C19_LazySingleton ==
    /\ [](/\ constructed <= 1
          /\ (storageInstance = "null" <=> constructed = 0)
          /\ (lastVia = "handle" => storageInstance = "provider"))
    /\ [][/\ constructed' # constructed
              => lastVia' = "handle" /\ storageInstance = "null"
          /\ storageInstance # "null" => storageInstance' = storageInstance]_vars

\* A second call through the handle, the provider constructed once.
C19_Witness ==
    /\ lastVia = "handle"
    /\ constructed = 1
    /\ lastOp.op = "delete"
    /\ lastOp.existed

\* The effect of the provider method that lastOp' records, on this step.
ProviderEffect ==
    LET o == lastOp'
    IN  \/ /\ o.op = "upload"
           /\ \E d \in Datas, ct \in ContentTypes : UploadCall(o.args[1], d, ct, o.up)
        \/ /\ o.op \in {"download", "downloadStream"}
           /\ \E f \in BOOLEAN : DownloadCall(o.op, o.args[1], o.up, f)
        \/ /\ o.op = "delete"
           /\ DeleteCall(o.args[1], o.up)
        \/ /\ o.op = "deleteMany"
           /\ \E f \in Failures(Len(o.args), o.up) :
                 DeleteManyCall(o.args, o.up, f[1], f[2])
        \/ /\ o.op = "head"
           /\ HeadCall(o.args[1], o.up)
        \/ /\ o.op = "exists"
           /\ ExistsCall(o.args[1], o.up)

\* C20: a call through the handle returns, fails and acts on the backend as
\* the provider's method does on the same arguments; the handle adds only
\* the construction of the provider, at the first call through it.
C20_TransparentForwarding ==
    [][/\ lastVia' = "handle" => ProviderEffect
       /\ storageInstance' # storageInstance
            => lastVia' = "handle" /\ storageInstance = "null"
       /\ (lastVia' = "handle" /\ storageInstance # "null")
            => UNCHANGED <<storageInstance, constructed>>]_vars

\* An upload made through the handle that stored the object.
C20_Witness ==
    /\ lastVia = "handle"
    /\ lastOp.op = "upload"
    /\ lastOp.outcome = "ok"
    /\ blobs[lastOp.args[1]].present

-----------------------------------------------------------------------------
(* Properties of the content type, base64 and organisation path utilities *)

\* The text after the last "." of a filename, lower-cased; none without a ".".
HasExtension(f) == \E i \in 1..Len(f) : f[i] = "."
ExtensionOf(f) ==
    LET i == CHOOSE j \in 1..Len(f) : f[j] = "." /\ \A m \in (j + 1)..Len(f) : f[m] # "."
    IN  ToLowerCase(SubSeq(f, i + 1, Len(f)))
MimeStrings == {MimeTable[e] : e \in DOMAIN MimeTable} \cup {"application/octet-stream"}

\* C21: getContentTypeFromFilename returns a MIME string for every filename:
\* the table entry for a recognised extension, whatever its case, and
\* 'application/octet-stream' for a filename without an extension or with an
\* extension that is not in the table.
C21_ContentTypeTotal ==
    call = "getContentTypeFromFilename"
        => /\ result.ok
           /\ result.val[1] \in MimeStrings
           /\ LET f == input.s
              IN  IF HasExtension(f) /\ Len(ExtensionOf(f)) = 1
                                     /\ ExtensionOf(f)[1] \in DOMAIN MimeTable
                  THEN result.val[1] = MimeTable[ExtensionOf(f)[1]]
                  ELSE result.val[1] = "application/octet-stream"

\* C22: decoding the base64 text of a buffer gives the buffer back, and
\* decoding a data URL of a base64 payload gives what decoding the payload
\* alone gives.
C22_Base64RoundTrip ==
    /\ call = "roundTrip" => result = Ok(input.s)
    /\ call = "dataUrl"
        => result = Ok(Base64ToBuffer(BufferToBase64(input.s)))

\* A two-byte buffer recovered from its data URL.
C22_Witness ==
    /\ call = "dataUrl"
    /\ Len(input.s) = 2
    /\ result = Ok(input.s)

\* The "/"-separated segments of a pathname that are not empty.
Segments(p) == SelectSeq(SplitOn(p, {"/"}), LAMBDA seg : seg # <<>>)

\* C23: parseOrgPath of a bucket-qualified pathname gives the first segment
\* after the bucket prefix as orgId; it gives null for a pathname of fewer
\* than two segments (no "/" past a leading one); and parseOrgPath(buildOrgPath(orgId, s1..sn)) gives
\* orgId back, with the joined segments as path.
C23_ParseOrgPath ==
    /\ (call = "parseOrgPath" /\ result.ok
            /\ StartsWith(input.s, GetBucketPrefix("attachments")))
          => /\ Len(Segments(input.s)) >= 2
             /\ result.val[1] = Segments(input.s)[2]
    /\ (call = "parseOrgPath" /\ ~Includes(StripOneSlash(input.s), <<"/">>))
          => result = Err("null")
    /\ call \in {"parseBuilt0", "parseBuilt1", "parseBuilt2"}
          => LET n == CHOOSE i \in 0..2 :
                        call = <<"parseBuilt0", "parseBuilt1", "parseBuilt2">>[i + 1]
                 parts == OrgParts(n)
             IN  result = Ok(<<input.orgId,
                               JoinSlash([i \in 1..n |-> CleanPart(parts[i])])>>)

-----------------------------------------------------------------------------
(* Application actions over the storage handle and the database *)

\* storage.upload(pathname, ...) and storage.delete(pathname) as the actions
\* see them: a call that returns has stored, respectively removed, the object
\* at the pathname; a call that throws (up = FALSE) has changed nothing.
StorageUpload(pathname, up) == IF up THEN objects \cup {pathname} ELSE objects

StorageDelete(pathname, up) == IF up THEN objects \ {pathname} ELSE objects

\* `${STORAGE_BUCKETS.ATTACHMENTS}/${key}`
AttachmentsPathname(key) == <<"attachments", "/">> \o key

\* What an action returns: { success: true, data } or { success: false, error }.
Success(data) == [success |-> TRUE, data |-> data, error |-> "none"]
Failure(error) == [success |-> FALSE, data |-> <<>>, error |-> error]
NotReturned == [success |-> FALSE, data |-> <<>>, error |-> "pending"]

-----------------------------------------------------------------------------
(* upload-policy-pdf.ts: uploadPolicyPdfAction *)

\* The two references a replace can target: the pdfUrl of a draft version of
\* the policy (versionId given) and the pdfUrl of the policy itself (legacy).
PdfLevels == {"version", "policy"}

\* `${organizationId}/policies/${policyId}/v${version.version}-${Date.now()}-${sanitizedFileName}`
\* and, at policy level, the same without the version tag.
PdfKey(level, stamp) ==
    <<"org", "/", "policies", "/", "pol", "/">>
        \o (IF level = "version" THEN <<"v1", "-">> ELSE <<>>)
        \o <<ToString(stamp), "-", "file.pdf">>

\* pdfUrl: null
NullRef == <<>>

\* The reference in place before the replaces start was written by an upload
\* that returned earlier: its timestamp lies before every Date.now() to come.
EarlierKey(level) == PdfKey(level, -1)

Replacers == {1, 2}

NotReplacing ==
    [pc |-> "idle", level |-> "none", oldPdfUrl |-> NullRef, key |-> NullRef,
     uploaded |-> FALSE, switched |-> FALSE, cleanup |-> "none", ret |-> NotReturned]

\* if (oldPdfUrl && oldPdfUrl !== key)
DeletesOldAlways(oldPdfUrl, key) == oldPdfUrl # NullRef

DeletesOld(oldPdfUrl, key) == oldPdfUrl # NullRef /\ oldPdfUrl # key

InitReplace ==
    /\ input = Str(<<>>)
    /\ bucketArg = "none"
    /\ call = "none"
    /\ result = NoResult
    /\ StoreInit
    /\ kv = <<>>
    /\ procs = [p \in Replacers |-> NotReplacing]
    /\ \E refs \in [PdfLevels -> BOOLEAN] :
          /\ db = [l \in PdfLevels |-> IF refs[l] THEN EarlierKey(l) ELSE NullRef]
          /\ objects = {AttachmentsPathname(EarlierKey(l)) : l \in {k \in PdfLevels : refs[k]}}

\* db.policy.findUnique / db.policyVersion.findUnique: the action reads the
\* reference it is going to replace.
ReplaceRead(p, level) ==
    /\ procs[p].pc = "idle"
    /\ procs' = [procs EXCEPT ![p] = [@ EXCEPT !.pc = "read", !.level = level,
                                                !.oldPdfUrl = db[level]]]
    /\ UNCHANGED <<db, objects, kv, now, pathVars, providerVars>>

\* The key is made from Date.now(), then: await storage.upload(pathname, ...).
\* A throw ends the action in its catch block.
ReplaceUpload(p, up) ==
    /\ procs[p].pc = "read"
    /\ LET key == PdfKey(procs[p].level, now)
       IN  /\ objects' = StorageUpload(AttachmentsPathname(key), up)
           /\ procs' = [procs EXCEPT ![p] =
                  IF up THEN [@ EXCEPT !.pc = "uploaded", !.key = key, !.uploaded = TRUE]
                  ELSE [@ EXCEPT !.pc = "done", !.key = key,
                                 !.ret = Failure("Failed to upload PDF.")]]
    /\ UNCHANGED <<db, kv, now, pathVars, providerVars>>

\* await db.policyVersion.update / db.policy.update ({ pdfUrl: key })
ReplaceUpdate(p, dbUp) ==
    /\ procs[p].pc = "uploaded"
    /\ db' = IF dbUp THEN [db EXCEPT ![procs[p].level] = procs[p].key] ELSE db
    /\ procs' = [procs EXCEPT ![p] =
           IF dbUp THEN [@ EXCEPT !.pc = "updated", !.switched = TRUE]
           ELSE [@ EXCEPT !.pc = "done", !.ret = Failure("Failed to upload PDF.")]]
    /\ UNCHANGED <<objects, kv, now, pathVars, providerVars>>

\* The old object is deleted inside its own try/catch, then the action
\* returns { success: true, data: { s3Key: key } }.
ReplaceCleanup(p, up) ==
    /\ procs[p].pc = "updated"
    /\ LET q == procs[p]
           deletes == DeletesOld(q.oldPdfUrl, q.key)
       IN  /\ objects' = IF deletes
                         THEN StorageDelete(AttachmentsPathname(q.oldPdfUrl), up)
                         ELSE objects
           /\ procs' = [procs EXCEPT ![p] =
                  [@ EXCEPT !.pc = "done", !.ret = Success(q.key),
                            !.cleanup = IF ~deletes THEN "skipped"
                                        ELSE IF up THEN "deleted" ELSE "failed"]]
    /\ UNCHANGED <<db, kv, now, pathVars, providerVars>>

NextReplace ==
    \/ \E p \in Replacers, l \in PdfLevels : ReplaceRead(p, l)
    \/ \E p \in Replacers, up \in BOOLEAN : ReplaceUpload(p, up)
    \/ \E p \in Replacers, dbUp \in BOOLEAN : ReplaceUpdate(p, dbUp)
    \/ \E p \in Replacers, up \in BOOLEAN : ReplaceCleanup(p, up)
    \/ Tick

SpecReplace == InitReplace /\ [][NextReplace]_vars

-----------------------------------------------------------------------------
(* deleteTaskAttachment.ts, delete-version.ts, delete-policy.ts and the   *)
(* attachments service: deleting a record and its stored file             *)

\* A legacy S3 URL, as attachment rows written before the migration hold it.
LegacyS3Url == <<"https", ":", "/", "/">> \o LegacyS3Host \o <<"/", "x">>

\* What the url column of a task attachment can hold: the pathname uploadFile
\* stored, the public URL of the object, a legacy S3 URL, a foreign URL.
AttachmentUrls == {GoodKey, StoreUrl, LegacyS3Url, ForeignUrl}

\* The storageKey uploadAttachment gave the attachment of the API service.
ServiceKey == <<"attachments", "/", "org", "/", "x">>

NoRow == [exists |-> FALSE, url |-> NullRef]
Row(url) == [exists |-> TRUE, url |-> url]

\* The last action that returned: which, how its storage cleanup went
\* ("ok", "failed", "skipped"), whether the database answered, the result.
NoRun == [action |-> "none", cleanup |-> "none", dbUp |-> TRUE, ret |-> NotReturned]
Ran(action, cleanup, dbUp, ret) ==
    [action |-> action, cleanup |-> cleanup, dbUp |-> dbUp, ret |-> ret]

\* try { pathname = extractPathnameFromUrl(url); await storage.delete(pathname) }
\* catch { console.error(...) }: what is left in storage, and whether the
\* failure reaches the caller.
TryDeleteNoCatch(pathname, up) ==
    IF pathname.ok /\ up
    THEN [objects |-> StorageDelete(pathname.val, TRUE), cleanup |-> "ok", thrown |-> FALSE]
    ELSE [objects |-> objects, cleanup |-> "failed", thrown |-> TRUE]

TryDelete(pathname, up) ==
    IF pathname.ok /\ up
    THEN [objects |-> StorageDelete(pathname.val, TRUE), cleanup |-> "ok", thrown |-> FALSE]
    ELSE [objects |-> objects, cleanup |-> "failed", thrown |-> FALSE]

\* await storage.delete(pathname) outside any try of its own.
MustDelete(pathname, up) ==
    IF up
    THEN [objects |-> StorageDelete(pathname, TRUE), cleanup |-> "ok", thrown |-> FALSE]
    ELSE [objects |-> objects, cleanup |-> "failed", thrown |-> TRUE]

\* await storage.deleteMany(pathnames): one batch; when the backend fails the
\* call throws, and the backend may have removed the first object by then.
DeleteManyOutcomes == {"ok", "failedNone", "failedFirst"}

MustDeleteMany(pathnames, outcome) ==
    IF pathnames = <<>>
    THEN [objects |-> objects, cleanup |-> "skipped", thrown |-> FALSE]
    ELSE IF outcome = "ok"
    THEN [objects |-> objects \ {pathnames[i] : i \in 1..Len(pathnames)},
          cleanup |-> "ok", thrown |-> FALSE]
    ELSE [objects |-> IF outcome = "failedFirst" THEN objects \ {pathnames[1]} ELSE objects,
          cleanup |-> "failed", thrown |-> TRUE]

DeleteRow(table, dbUp) == IF dbUp THEN [db EXCEPT ![table] = NoRow] ELSE db

\* The pathnames the rows hold objects at.
LivePathname(url) ==
    IF url \in {GoodKey, StoreUrl} THEN {GoodKey} ELSE {}

InitDelete ==
    /\ input = Str(<<>>)
    /\ bucketArg = "none"
    /\ call = "none"
    /\ result = NoResult
    /\ StoreInit
    /\ kv = <<>>
    /\ procs = NoRun
    /\ \E u \in AttachmentUrls, v \in BOOLEAN, l \in BOOLEAN :
          /\ db = [task |-> Row(u),
                   service |-> Row(ServiceKey),
                   version |-> Row(IF v THEN EarlierKey("version") ELSE NullRef),
                   policy |-> Row(IF l THEN EarlierKey("policy") ELSE NullRef)]
          /\ objects = LivePathname(u) \cup {ServiceKey}
                  \cup (IF v THEN {AttachmentsPathname(EarlierKey("version"))} ELSE {})
                  \cup (IF l THEN {AttachmentsPathname(EarlierKey("policy"))} ELSE {})

\* deleteTaskAttachment({ attachmentId })
DeleteTaskAttachment(up, dbUp) ==
    /\ IF ~db.task.exists
       THEN /\ procs' = Ran("deleteTaskAttachment", "none", TRUE,
                            Failure("Attachment not found or access denied"))
            /\ UNCHANGED <<db, objects>>
       ELSE LET d == TryDelete(ExtractPathnameFromUrl(Str(db.task.url)), up)
                ok == ~d.thrown /\ dbUp
            IN  /\ objects' = d.objects
                /\ db' = IF d.thrown THEN db ELSE DeleteRow("task", dbUp)
                /\ procs' = Ran("deleteTaskAttachment", d.cleanup, dbUp,
                                IF ok THEN Success(<<"deletedAttachmentId">>)
                                ELSE Failure("Failed to delete attachment."))
    /\ UNCHANGED <<kv, now, pathVars, providerVars>>

\* deleteVersionAction({ versionId, policyId }) for a draft version
DeleteVersionAction(up, dbUp) ==
    /\ IF ~db.version.exists
       THEN /\ procs' = Ran("deleteVersionAction", "none", TRUE, Failure("Version not found"))
            /\ UNCHANGED <<db, objects>>
       ELSE LET d == IF db.version.url # NullRef
                     THEN TryDelete(Ok(AttachmentsPathname(db.version.url)), up)
                     ELSE [objects |-> objects, cleanup |-> "skipped", thrown |-> FALSE]
                ok == ~d.thrown /\ dbUp
            IN  /\ objects' = d.objects
                /\ db' = IF d.thrown THEN db ELSE DeleteRow("version", dbUp)
                /\ procs' = Ran("deleteVersionAction", d.cleanup, dbUp,
                                IF ok THEN Success(<<"deletedVersion">>)
                                ELSE Failure("serverError"))
    /\ UNCHANGED <<kv, now, pathVars, providerVars>>

\* deletePolicyAction({ id }): the policy-level PDF and the PDFs of all its
\* versions go in one deleteMany; the versions are deleted with the policy.
DeletePolicyAction(outcome, dbUp) ==
    /\ IF ~db.policy.exists
       THEN /\ procs' = Ran("deletePolicyAction", "none", TRUE, Failure("Policy not found"))
            /\ UNCHANGED <<db, objects>>
       ELSE LET pdfUrlsToDelete ==
                    (IF db.policy.url # NullRef
                     THEN <<AttachmentsPathname(db.policy.url)>> ELSE <<>>)
                    \o (IF db.version.exists /\ db.version.url # NullRef
                        THEN <<AttachmentsPathname(db.version.url)>> ELSE <<>>)
                d == MustDeleteMany(pdfUrlsToDelete, outcome)
                ok == ~d.thrown /\ dbUp
            IN  /\ objects' = d.objects
                /\ db' = IF ok THEN [db EXCEPT !["policy"] = NoRow, !["version"] = NoRow]
                         ELSE db
                /\ procs' = Ran("deletePolicyAction", d.cleanup, dbUp,
                                IF ok THEN Success(<<>>)
                                ELSE Failure("Failed to delete policy"))
    /\ UNCHANGED <<kv, now, pathVars, providerVars>>

\* AttachmentsService.deleteAttachment(organizationId, attachmentId)
DeleteAttachment(up, dbUp) ==
    /\ IF ~db.service.exists
       THEN /\ procs' = Ran("deleteAttachment", "none", TRUE, Failure("Attachment not found"))
            /\ UNCHANGED <<db, objects>>
       ELSE LET d == MustDelete(db.service.url, up)
                ok == ~d.thrown /\ dbUp
            IN  /\ objects' = d.objects
                /\ db' = IF d.thrown THEN db ELSE DeleteRow("service", dbUp)
                /\ procs' = Ran("deleteAttachment", d.cleanup, dbUp,
                                IF ok THEN Success(<<>>)
                                ELSE Failure("Failed to delete attachment"))
    /\ UNCHANGED <<kv, now, pathVars, providerVars>>

NextDelete ==
    \/ \E up \in BOOLEAN, dbUp \in BOOLEAN : DeleteTaskAttachment(up, dbUp)
    \/ \E up \in BOOLEAN, dbUp \in BOOLEAN : DeleteVersionAction(up, dbUp)
    \/ \E o \in DeleteManyOutcomes, dbUp \in BOOLEAN : DeletePolicyAction(o, dbUp)
    \/ \E up \in BOOLEAN, dbUp \in BOOLEAN : DeleteAttachment(up, dbUp)

SpecDelete == InitDelete /\ [][NextDelete]_vars

-----------------------------------------------------------------------------
(* upload-file.ts: uploadFile, and AttachmentsService.uploadAttachment *)

\* fileName.replace(/[^a-zA-Z0-9.-]/g, '_')
SanitizeFileName(fileName) ==
    [i \in 1..Len(fileName) |->
        IF fileName[i] \in {" ", "/", ":", "\\"} THEN "_" ELSE fileName[i]]

FileNames == {<<"file", ".", "pdf">>, <<"my", " ", "file", ".", "pdf">>, <<"run", ".", "exe">>}

\* BLOCKED_EXTENSIONS.includes(fileName.split('.').pop()?.toLowerCase())
BlockedExtension(fileName) ==
    LET parts == SplitOn(fileName, {"."})
    IN  parts[Len(parts)] \in {<<"exe">>, <<"bat">>, <<"sh">>, <<"js">>}

\* The two upload handlers, one invocation of each.
Uploaders == {"uploadFile", "uploadAttachment"}

\* uploadFile:       `${ATTACHMENTS}/${organizationId}/attachments/${entityType}/${entityId}/${timestamp}-${sanitizedFileName}`
\* uploadAttachment: `${this.bucketPrefix}/${organizationId}/${entityType}/${entityId}/${timestamp}-${fileId}-${sanitizedFileName}`
UploadPathname(handler, stamp, fileName) ==
    IF handler = "uploadFile"
    THEN <<"attachments", "/", "org", "/", "attachments", "/", "task", "/", "ent", "/",
           ToString(stamp), "-">> \o SanitizeFileName(fileName)
    ELSE <<"attachments", "/", "org", "/", "task", "/", "ent", "/",
           ToString(stamp), "-", "fileId", "-">> \o SanitizeFileName(fileName)

\* data: { url: pathname } / { url: storageKey }
RecordUrlWithoutBucket(pathname) == SubSeq(pathname, 3, Len(pathname))

RecordUrl(pathname) == pathname

NotUploading ==
    [pc |-> "idle", fileName |-> <<>>, pathname |-> <<>>, uploaded |-> FALSE,
     uploadFailed |-> FALSE, ret |-> NotReturned]

InitUpload ==
    /\ input = Str(<<>>)
    /\ bucketArg = "none"
    /\ call = "none"
    /\ result = NoResult
    /\ StoreInit
    /\ kv = <<>>
    /\ procs = [h \in Uploaders |-> NotUploading]
    /\ db = {}
    /\ objects = {}

\* The handler validates its input and makes the pathname from Date.now().
\* uploadAttachment throws BadRequestException for a blocked extension.
UploadStart(h, fileName) ==
    /\ procs[h].pc = "idle"
    /\ procs' = [procs EXCEPT ![h] =
           IF h = "uploadAttachment" /\ BlockedExtension(fileName)
           THEN [@ EXCEPT !.pc = "done", !.fileName = fileName,
                          !.ret = Failure("BadRequestException")]
           ELSE [@ EXCEPT !.pc = "start", !.fileName = fileName,
                          !.pathname = UploadPathname(h, now, fileName)]]
    /\ UNCHANGED <<db, objects, kv, now, pathVars, providerVars>>

\* await storage.upload(pathname, fileBuffer, ...)
UploadStore(h, up) ==
    /\ procs[h].pc = "start"
    /\ objects' = StorageUpload(procs[h].pathname, up)
    /\ procs' = [procs EXCEPT ![h] =
           IF up THEN [@ EXCEPT !.pc = "uploaded", !.uploaded = TRUE]
           ELSE [@ EXCEPT !.pc = "done", !.uploadFailed = TRUE,
                          !.ret = Failure("Failed to upload")]]
    /\ UNCHANGED <<db, kv, now, pathVars, providerVars>>

\* await db.attachment.create({ data: { url, ... } })
UploadRecord(h, dbUp) ==
    /\ procs[h].pc = "uploaded"
    /\ db' = IF dbUp THEN db \cup {[by |-> h, url |-> RecordUrl(procs[h].pathname)]} ELSE db
    /\ procs' = [procs EXCEPT ![h] =
           IF dbUp THEN [@ EXCEPT !.pc = "recorded"]
           ELSE [@ EXCEPT !.pc = "done", !.ret = Failure("Failed to upload")]]
    /\ UNCHANGED <<objects, kv, now, pathVars, providerVars>>

\* await storage.getUrl(pathname, { expiresIn: 900 }), then the result.
UploadReturn(h, up) ==
    /\ procs[h].pc = "recorded"
    /\ procs' = [procs EXCEPT ![h] =
           [@ EXCEPT !.pc = "done",
                     !.ret = IF up THEN Success(procs[h].pathname)
                             ELSE Failure("Failed to upload")]]
    /\ UNCHANGED <<db, objects, kv, now, pathVars, providerVars>>

NextUpload ==
    \/ \E h \in Uploaders, f \in FileNames : UploadStart(h, f)
    \/ \E h \in Uploaders, up \in BOOLEAN : UploadStore(h, up)
    \/ \E h \in Uploaders, dbUp \in BOOLEAN : UploadRecord(h, dbUp)
    \/ \E h \in Uploaders, up \in BOOLEAN : UploadReturn(h, up)
    \/ Tick

SpecUpload == InitUpload /\ [][NextUpload]_vars

-----------------------------------------------------------------------------
(* download-agent route: getDownloadToken and handleDownload *)

\* Requests that arrive with the same token, in any interleaving.
MaxRequests == 3
Requests == 1..MaxRequests

\* `${STORAGE_BUCKETS.FLEET_AGENTS}/${target.key}`
DownloadPathname == <<"fleet-agents", "/", "macos", "/", "agent.dmg">>

\* new NextResponse(body, { status })
Response(status, body) == [status |-> status, body |-> body]
NoResponse == Response(0, "none")

NotRequested ==
    [pc |-> "idle", isHead |-> FALSE, downloadInfo |-> "null", deleted |-> FALSE,
     downloadFailed |-> FALSE, res |-> NoResponse]

InitToken ==
    /\ input = Str(<<>>)
    /\ bucketArg = "none"
    /\ call = "none"
    /\ result = NoResult
    /\ StoreInit
    /\ db = <<>>
    /\ kv = {<<"download:", "T">>}
    /\ objects = {DownloadPathname}
    /\ procs = [r \in Requests |-> NotRequested]

\* getDownloadToken: kv.get(`download:${token}`) ?? null
GetDownloadToken(token) == IF <<"download:", token>> \in kv THEN "info" ELSE "null"

\* GET or HEAD arrives; the handler looks the token up and answers 403 when
\* it is not there.
HandleLookup(r, isHead) ==
    /\ procs[r].pc = "idle"
    /\ LET downloadInfo == GetDownloadToken("T")
       IN  procs' = [procs EXCEPT ![r] =
               IF downloadInfo = "null"
               THEN [@ EXCEPT !.pc = "done", !.isHead = isHead,
                              !.res = Response(403, "Invalid or expired download token")]
               ELSE [@ EXCEPT !.pc = "found", !.isHead = isHead,
                              !.downloadInfo = downloadInfo]]
    /\ UNCHANGED <<db, objects, kv, now, pathVars, providerVars>>

\* HEAD: await storage.head(pathname), then the headers; a throw gives 500.
HandleHead(r, up) ==
    /\ procs[r].pc = "found" /\ procs[r].isHead
    /\ procs' = [procs EXCEPT ![r] =
           [@ EXCEPT !.pc = "done",
                     !.res = IF up THEN Response(200, "headers")
                             ELSE Response(500, "Failed to download agent")]]
    /\ UNCHANGED <<db, objects, kv, now, pathVars, providerVars>>

\* GET: await storage.downloadStream(pathname); a throw gives 500.
HandleStream(r, up) ==
    /\ procs[r].pc = "found" /\ ~procs[r].isHead
    /\ procs' = [procs EXCEPT ![r] =
           IF up /\ DownloadPathname \in objects
           THEN [@ EXCEPT !.pc = "streaming"]
           ELSE [@ EXCEPT !.pc = "done", !.downloadFailed = TRUE,
                          !.res = Response(500, "Failed to download agent")]]
    /\ UNCHANGED <<db, objects, kv, now, pathVars, providerVars>>

\* GET: await kv.del(`download:${token}`), then the stream is the response.
HandleConsume(r, kvUp) ==
    /\ procs[r].pc = "streaming"
    /\ kv' = IF kvUp THEN kv \ {<<"download:", "T">>} ELSE kv
    /\ procs' = [procs EXCEPT ![r] =
           IF kvUp THEN [@ EXCEPT !.pc = "done", !.deleted = TRUE,
                                  !.res = Response(200, "stream")]
           ELSE [@ EXCEPT !.pc = "done", !.res = Response(500, "Failed to download agent")]]
    /\ UNCHANGED <<db, objects, now, pathVars, providerVars>>

NextToken ==
    \/ \E r \in Requests, isHead \in BOOLEAN : HandleLookup(r, isHead)
    \/ \E r \in Requests, up \in BOOLEAN : HandleHead(r, up)
    \/ \E r \in Requests, up \in BOOLEAN : HandleStream(r, up)
    \/ \E r \in Requests, kvUp \in BOOLEAN : HandleConsume(r, kvUp)

SpecToken == InitToken /\ [][NextToken]_vars

-----------------------------------------------------------------------------
(* knowledge base: uploadToS3 and the two readers of an uploaded document *)

KbNameAtoms == {"x", ".", " ", "/"}
KbFileNames == UNION {[1..k -> KbNameAtoms] : k \in 0..MaxBody}
KbOrgIds == {<<"org">>, <<"x">>}

\* generateS3Key(organizationId, fileId, sanitized): a key below the
\* organisation made of the random file id and the sanitised name.
GenerateS3Key(organizationId, fileId, sanitized) ==
    organizationId \o <<"/", fileId, "-">> \o sanitized

\* const s3Key = `${STORAGE_BUCKETS.KNOWLEDGE_BASE}/${generateS3Key(...)}`
UploadedS3Key(organizationId, fileName) ==
    <<"knowledge-base", "/">>
        \o GenerateS3Key(organizationId, "fileId", SanitizeFileName(fileName))

\* const pathname = `${STORAGE_BUCKETS.KNOWLEDGE_BASE}/${s3Key}`
KbDownloadPathname(s3Key) == <<"knowledge-base", "/">> \o s3Key

NoDocument == [s3Key |-> <<>>, uploaded |-> FALSE, readAt |-> <<>>, found |-> FALSE]

InitKb ==
    /\ \E o \in KbOrgIds, f \in KbFileNames : input = [kind |-> "str", s |-> f, orgId |-> o]
    /\ bucketArg = "none"
    /\ call = "none"
    /\ result = NoResult
    /\ StoreInit
    /\ db = <<>>
    /\ kv = <<>>
    /\ objects = {}
    /\ procs = NoDocument

\* uploadToS3(organizationId, fileName, fileType, fileData)
CallUploadToS3(up) ==
    /\ call = "none"
    /\ LET s3Key == UploadedS3Key(input.orgId, input.s)
       IN  /\ objects' = StorageUpload(s3Key, up)
           /\ call' = "uploadToS3"
           /\ result' = IF up THEN Ok(s3Key) ELSE Err("BackendError")
           /\ procs' = [procs EXCEPT !.s3Key = IF up THEN s3Key ELSE <<>>, !.uploaded = up]
    /\ UNCHANGED <<input, bucketArg, parsedArgs, db, kv, now, providerVars>>

\* extractContentFromS3Document(s3Key, fileType) and, in the task,
\* extractContentFromKnowledgeBaseDocument(s3Key, fileType): the pathname
\* storage.download is called with, and whether an object is there.
CallExtractContent(reader) ==
    /\ procs.uploaded
    /\ LET pathname == KbDownloadPathname(procs.s3Key)
       IN  /\ call' = reader
           /\ procs' = [procs EXCEPT !.readAt = pathname, !.found = pathname \in objects]
           /\ result' = IF pathname \in objects THEN Ok(pathname) ELSE Err("NotFound")
    /\ UNCHANGED <<input, bucketArg, parsedArgs, db, kv, objects, now, providerVars>>

NextKb ==
    \/ \E up \in BOOLEAN : CallUploadToS3(up)
    \/ CallExtractContent("extractContentFromS3Document")
    \/ CallExtractContent("processKnowledgeBaseDocument")

SpecKb == InitKb /\ [][NextKb]_vars

-----------------------------------------------------------------------------
(* getTaskAttachmentUrl.ts: an access URL for a stored attachment *)

\* The hosts a stored attachment URL can name, and the keys below them.
StoredHosts == {LegacyS3Host, RegionalS3Host, TrustedBlobHost, ForeignHost}
StoredKeys == UNION {[1..k -> {"x", "/", "."}] : k \in 1..MaxBody}
StoredUrl(host, key) == <<"https", ":", "/", "/">> \o host \o <<"/">> \o key

\* storage.getUrl(pathname, { expiresIn }): head(pathname) gives null for no
\* object and for any failure, and getUrl then throws "File not found";
\* otherwise the public URL of the object.
StorageGetUrl(pathname, up) ==
    IF up /\ pathname \in objects THEN Ok(PublicUrl(pathname)) ELSE Err("File not found")

NoUrlRun == [action |-> "none", extracted |-> NoResult, up |-> TRUE, ret |-> NotReturned]

\* The row holds a URL written before or after the migration.  The files of
\* S3 URLs were not copied: the store holds an object for the row only when
\* its URL is one of the store's own.
InitLegacy ==
    /\ input = Str(<<>>)
    /\ bucketArg = "none"
    /\ call = "none"
    /\ result = NoResult
    /\ StoreInit
    /\ kv = <<>>
    /\ procs = NoUrlRun
    /\ \E h \in StoredHosts, k \in StoredKeys :
          /\ db = [task |-> Row(StoredUrl(h, k))]
          /\ objects = IF h = TrustedBlobHost THEN {k} ELSE {}

\* getTaskAttachmentUrl({ attachmentId })
GetTaskAttachmentUrl(up) ==
    /\ procs.action = "none"
    /\ LET pathname == ExtractPathnameFromUrl(Str(db.task.url))
           signedUrl == IF pathname.ok THEN StorageGetUrl(pathname.val, up)
                        ELSE Err("none")
       IN  procs' = [action |-> "getTaskAttachmentUrl", extracted |-> pathname, up |-> up,
                     ret |-> IF ~pathname.ok
                             THEN Failure("Could not process attachment URL")
                             ELSE IF ~signedUrl.ok
                             THEN Failure("Could not generate access URL for the file")
                             ELSE Success(signedUrl.val)]
    /\ UNCHANGED <<db, objects, kv, now, pathVars, providerVars>>

NextLegacy == \E up \in BOOLEAN : GetTaskAttachmentUrl(up)

SpecLegacy == InitLegacy /\ [][NextLegacy]_vars

-----------------------------------------------------------------------------
(* Properties of the application actions *)

\* A replace removes an object only as the cleanup of an invocation that has
\* uploaded its new object and switched the reference to it.
ReplaceDeletesLast ==
    \A x \in objects :
        x \notin objects' =>
            \E p \in Replacers :
                /\ procs[p].uploaded /\ procs[p].switched
                /\ db[procs[p].level] # procs[p].oldPdfUrl
                /\ x = AttachmentsPathname(procs[p].oldPdfUrl)
                /\ procs'[p].cleanup = "deleted"

\* An invocation whose cleanup failed still returns success with its key, and
\* the reference it committed stays.
ReplaceCleanupBestEffort ==
    \A p \in Replacers :
        (procs[p].pc = "updated" /\ procs'[p].pc = "done") =>
            /\ procs'[p].ret = Success(procs[p].key)
            /\ db' = db

\* C24: during replaces of a policy PDF, two concurrent ones included, every
\* pdfUrl in the database names an object that exists in storage; the old
\* object is deleted only after the new one is uploaded and the reference is
\* switched; a failed deletion of the old object changes neither the success
\* result nor the committed reference.
C24_ReplaceSequencing ==
    /\ [](\A l \in PdfLevels :
            db[l] # NullRef => AttachmentsPathname(db[l]) \in objects)
    /\ [][ReplaceDeletesLast /\ ReplaceCleanupBestEffort]_vars

\* One replace has returned success although deleting the old object failed,
\* while the other replace of the same reference has uploaded its object.
C24_Witness ==
    /\ procs[1].pc = "done" /\ procs[1].cleanup = "failed" /\ procs[1].ret.success
    /\ procs[2].pc \in {"uploaded", "updated"}
    /\ procs[2].level = procs[1].level
    /\ procs[2].oldPdfUrl = procs[1].oldPdfUrl

\* The row the action named in procs is about.
RowOf(action) ==
    IF action = "deleteTaskAttachment" THEN db.task
    ELSE IF action = "deleteVersionAction" THEN db.version
    ELSE IF action = "deletePolicyAction" THEN db.policy
    ELSE db.service

\* C25: in deleteTaskAttachment and deleteVersionAction a failure of
\* extractPathnameFromUrl or storage.delete is only logged: with the database
\* answering, the record is deleted and the action reports success.
C25_BestEffortCleanup ==
    (/\ procs.action \in {"deleteTaskAttachment", "deleteVersionAction"}
     /\ procs.cleanup = "failed"
     /\ procs.dbUp)
        => /\ ~RowOf(procs.action).exists
           /\ procs.ret.success

\* deleteTaskAttachment has returned success after its storage cleanup failed
\* on a row whose file is not in the store; the row is gone.
C25_Witness ==
    /\ procs.action = "deleteTaskAttachment"
    /\ procs.cleanup = "failed"
    /\ procs.ret.success
    /\ ~db.task.exists
    /\ GoodKey \notin objects
    /\ db.version.exists

\* C26: in deletePolicyAction and AttachmentsService.deleteAttachment a
\* failure of the storage deletion does not block the database mutation: the
\* record is deleted, and no record is left that references a removed object.
C26_StorageFailureDoesNotBlock ==
    /\ (/\ procs.action \in {"deletePolicyAction", "deleteAttachment"}
        /\ procs.cleanup = "failed"
        /\ procs.dbUp)
          => ~RowOf(procs.action).exists
    /\ procs.action \in {"deletePolicyAction", "deleteAttachment"}
          => /\ (db.policy.exists /\ db.policy.url # NullRef)
                    => AttachmentsPathname(db.policy.url) \in objects
             /\ db.service.exists => db.service.url \in objects

\* A row appears only from a handler whose storage.upload has returned, and
\* its url is the pathname that handler uploaded.
RecordAfterUpload ==
    \A r \in db' \ db :
        /\ procs[r.by].uploaded
        /\ r.url = procs[r.by].pathname
        /\ r.url \in objects

\* C27: uploadFile and uploadAttachment create the database record only after
\* storage.upload succeeded; the url of the record is exactly the uploaded
\* pathname; and a handler whose upload failed leaves no record.
C27_UploadBeforeRecord ==
    /\ [](\A r \in db : r.url \in objects /\ r.url = procs[r.by].pathname)
    /\ [](\A h \in Uploaders : procs[h].uploadFailed => \A r \in db : r.by # h)
    /\ [][RecordAfterUpload]_vars

\* uploadFile has recorded its upload while the upload of uploadAttachment
\* failed.
C27_Witness ==
    /\ procs["uploadAttachment"].uploadFailed
    /\ procs["uploadFile"].pc = "done" /\ procs["uploadFile"].ret.success
    /\ \E r \in db : r.by = "uploadFile" /\ r.url \in objects

RECURSIVE KbPrefixCount(_)
KbPrefixCount(p) ==
    IF StartsWith(p, <<"knowledge-base", "/">>)
    THEN 1 + KbPrefixCount(SubSeq(p, 3, Len(p)))
    ELSE 0

\* C29: for the s3Key uploadToS3 returned, the pathname that
\* extractContentFromS3Document and the process-knowledge-base-document task
\* download from is the pathname that was uploaded, with the knowledge-base
\* prefix on it exactly once.
C29_KnowledgeBaseKey ==
    call \in {"extractContentFromS3Document", "processKnowledgeBaseDocument"}
        => /\ procs.readAt = procs.s3Key
           /\ KbPrefixCount(procs.readAt) = 1
           /\ procs.found

\* The URL of the row is a legacy S3 URL.
IsLegacyS3Row ==
    \E h \in {LegacyS3Host, RegionalS3Host}, k \in StoredKeys : db.task.url = StoredUrl(h, k)

\* C30: for an attachment whose stored url is a legacy S3 URL of an object
\* that was not copied to the new backend, getTaskAttachmentUrl, with the
\* backend answering, extracts the key and returns success with an access URL.
C30_LegacyUrlsKeepWorking ==
    (/\ procs.action = "getTaskAttachmentUrl"
     /\ IsLegacyS3Row
     /\ procs.up
     /\ procs.extracted.ok)
        => procs.ret.success

=============================================================================
